---- MODULE Spec2Model ----
(***************************************************************************)
(* Model of the project scaffolder (src/pytools_scaffolder.py): the path   *)
(* matcher CodeTemplateManager.match_files, the tree-text parser           *)
(* ScaffolderApp.parse_structure with its classifier _is_file, and the     *)
(* template parser IntelligentTemplateParser.                              *)
(*                                                                         *)
(* A Python str is modelled as a sequence of one-character strings, so     *)
(* that replace/lower/strip/split/startswith/endswith/in are computed on   *)
(* the characters as the code computes them.                               *)
(***************************************************************************)
EXTENDS Integers, Sequences, FiniteSets, TLC

VARIABLES
    \* CodeTemplateManager.match_files
    template_paths,   \* argument: the template paths, in iteration order
    project_files,    \* argument: the project files, in iteration order
    matches,          \* local: list of (template_orig, project_orig)
    used_templates,   \* local
    used_projects,    \* local
    mpc,              \* position inside match_files
    \* ScaffolderApp.parse_structure
    text,             \* argument, as lines = text.split('\n')
    root_dir,         \* local: None or the root name
    files,            \* local: list of file paths, in order of appending
    dirs,             \* local: set of directory paths
    comments,         \* local: dict path -> comment
    level_to_path,    \* local: dict level -> path
    tpc,              \* position inside parse_structure: 0 before lines[0] is
                      \* inspected, i while line i is next, Len(text) + 1 at return
    \* ScaffolderApp._is_file
    token,            \* argument name
    kind,             \* "File" or "Directory" once _is_file has returned
    \* IntelligentTemplateParser.parse
    content_lines,    \* local lines = content.split('\n')
    file_headers,     \* local: list of (line number, filepath, confidence)
    templates,        \* local: dict filepath -> code, in insertion order
    hidx,             \* position inside parse: -1 at rest, 0 before the scan,
                      \* i while the i-th header is next, Len(file_headers) + 1
                      \* at return
    \* IntelligentTemplateParser._extract_code
    ex_lines,         \* argument lines
    ex_locals,        \* locals code_lines, skip_next_empty, in_docstring, docstring_char
    ex_result,        \* None, or Some(the lines of the string returned)
    ex_i,             \* position: -1 at rest, i while lines[i-1] is next, Len + 2 at return
    \* CodeTemplateManager.match_files.normalize_path
    n_path,           \* argument path
    n_once,           \* None, or Some(normalize_path(path))
    n_twice,          \* None, or Some(normalize_path of the former result)
    \* MetadataManager.merge_metadata
    md_existing,      \* argument existing, the dict object of the caller
    md_new,           \* argument new_data
    md_result,        \* local result
    md_todo,          \* keys of new_data the loop has not visited yet
    md_pc,            \* position inside merge_metadata
    \* ScaffolderApp.show_fill_dialog
    dlg_matches,      \* argument matches: list of (template_path, project_file)
    dlg_templates,    \* argument templates: dict template_path -> code
    dlg_disk,         \* the file under project_root for each project_file
    status_text,      \* the status label of each row built so far
    check_vars,       \* local check_vars: project_file -> value of its BooleanVar
    dlg_i,            \* position: 0 at rest, i while the i-th match is next
    \* ScaffolderApp.apply_templates
    ap_matches,       \* argument matches: list of (template_path, project_file)
    ap_templates,     \* argument templates: dict template_path -> code
    ap_checked,       \* argument check_vars: project_file -> value of its BooleanVar
    ap_disk,          \* the file under project_root for each project_file
    write_log,        \* the calls of write_file so far: file, file state before, outcome
    selected,         \* local selected
    op_files,         \* local operation["files"]: path -> backup
    success,          \* local success
    error,            \* local error
    errors,           \* local errors
    template_history, \* self.template_history
    ap_i,             \* the match the loop is at
    ap_pc,            \* position inside apply_templates
    \* ScaffolderApp._calculate_level_fixed, as parse_structure calls it
    lv_raw,           \* a line of the text
    lv_line,          \* argument line: the line with its "# comment" cut off
    lv_spaces,        \* local leading_spaces
    lv_level,         \* the level returned
    lv_pc,            \* position
    \* ScaffolderApp.scan_directory, copy_scan_to_structure, preview_structure
    scan_tree,        \* the directory under base_path: its entries, by root-relative path
    scan_meta,        \* the content of its metadata file: rel_path -> comment
    scan_result_text, \* the text of the SCAN RESULT widget
    structure_text,   \* the text of the PROJECT STRUCTURE widget
    \* ScaffolderApp: the undo histories and the project directory of a session
    os_name,          \* os.name of the platform, "posix" or "nt"
    disk_files,       \* the files under project_root, by relative path
    disk_dirs,        \* the directories that exist under project_root
    disk_before,      \* disk_files as it was when the session began
    metadata,         \* the content of the metadata file of project_root
    operation_history, \* self.operation_history
    undo_btn,         \* the state option of self.undo_btn
    clock,            \* the number of operations so far, read by datetime.now()
    message           \* the message box shown last

mvars == <<template_paths, project_files, matches, used_templates, used_projects, mpc>>
tvars == <<text, root_dir, files, dirs, comments, level_to_path, tpc>>

cvars == <<token, kind>>

pvars == <<content_lines, file_headers, templates, hidx>>

evars == <<ex_lines, ex_locals, ex_result, ex_i>>

nvars == <<n_path, n_once, n_twice>>

gvars == <<md_existing, md_new, md_result, md_todo, md_pc>>

dvars == <<dlg_matches, dlg_templates, dlg_disk, status_text, check_vars, dlg_i>>

avars == <<ap_matches, ap_templates, ap_checked, ap_disk, write_log, selected, op_files, success, error, errors, template_history, ap_i, ap_pc>>

lvars == <<lv_raw, lv_line, lv_spaces, lv_level, lv_pc>>

svars == <<scan_tree, scan_meta, scan_result_text, structure_text>>

uvars == <<os_name, disk_files, disk_dirs, disk_before, metadata, operation_history, undo_btn, clock, message>>

vars == <<mvars, tvars, cvars, pvars, evars, nvars, gvars, dvars, avars, lvars, svars, uvars>>

\* Python's None and a present value
None == <<>>
Some(x) == <<x>>

\* a function that is not running: its variables at rest
MatchIdle ==
    /\ template_paths = <<>> /\ project_files = <<>> /\ matches = <<>>
    /\ used_templates = {} /\ used_projects = {} /\ mpc = "idle"
TreeIdle ==
    /\ text = <<>> /\ root_dir = None /\ files = <<>> /\ dirs = {}
    /\ comments = <<>> /\ level_to_path = <<>> /\ tpc = 0
ClassifyIdle == token = <<>> /\ kind = "idle"
ParseIdle ==
    /\ content_lines = <<>> /\ file_headers = <<>> /\ templates = <<>> /\ hidx = -1
ExtractIdle ==
    /\ ex_lines = <<>> /\ ex_locals = <<>> /\ ex_result = <<>> /\ ex_i = -1
NormalizeIdle ==
    /\ n_path = <<>> /\ n_once = <<>> /\ n_twice = <<>>
MergeIdle ==
    /\ md_existing = <<>> /\ md_new = <<>> /\ md_result = <<>> /\ md_todo = {}
    /\ md_pc = "idle"
DialogIdle ==
    /\ dlg_matches = <<>> /\ dlg_templates = <<>> /\ dlg_disk = <<>>
    /\ status_text = <<>> /\ check_vars = <<>> /\ dlg_i = 0
ApplyIdle ==
    /\ ap_matches = <<>> /\ ap_templates = <<>> /\ ap_checked = <<>> /\ ap_disk = <<>>
    /\ write_log = <<>> /\ selected = {} /\ op_files = <<>> /\ success = 0 /\ error = 0
    /\ errors = <<>> /\ template_history = <<>> /\ ap_i = 0 /\ ap_pc = "idle"
LevelIdle ==
    /\ lv_raw = <<>> /\ lv_line = <<>> /\ lv_spaces = 0 /\ lv_level = 0 /\ lv_pc = "idle"
ScanIdle ==
    /\ scan_tree = {} /\ scan_meta = <<>> /\ scan_result_text = <<>> /\ structure_text = <<>>
SessionIdle ==
    /\ os_name = "posix" /\ disk_files = <<>> /\ disk_dirs = {} /\ disk_before = <<>>
    /\ metadata = <<>> /\ operation_history = <<>> /\ undo_btn = "disabled" /\ clock = 0
    /\ message = "none"

(***************************************************************************)
(* str helpers                                                             *)
(***************************************************************************)
UpperCase == <<"A","B","C","D","E","F","G","H","I","J","K","L","M",
               "N","O","P","Q","R","S","T","U","V","W","X","Y","Z">>
LowerCase == <<"a","b","c","d","e","f","g","h","i","j","k","l","m",
               "n","o","p","q","r","s","t","u","v","w","x","y","z">>

\* str.lower() on one character
LowerChar(c) ==
    IF \E i \in DOMAIN UpperCase : UpperCase[i] = c
    THEN LowerCase[CHOOSE i \in DOMAIN UpperCase : UpperCase[i] = c]
    ELSE c

\* str.lower()
Lower(s) == [i \in 1..Len(s) |-> LowerChar(s[i])]

\* str.replace(old, new) for single characters
ReplaceChar(s, old, new) == [i \in 1..Len(s) |-> IF s[i] = old THEN new ELSE s[i]]

\* str.strip(chars) / lstrip / rstrip for a set of characters
LStripChars(s, cs) ==
    LET keep == {i \in 1..Len(s) : s[i] \notin cs}
    IN  IF keep = {} THEN <<>>
        ELSE SubSeq(s, CHOOSE i \in keep : \A j \in keep : i <= j, Len(s))

RStripChars(s, cs) ==
    LET keep == {i \in 1..Len(s) : s[i] \notin cs}
    IN  IF keep = {} THEN <<>>
        ELSE SubSeq(s, 1, CHOOSE i \in keep : \A j \in keep : i >= j)

StripChars(s, cs) == RStripChars(LStripChars(s, cs), cs)

\* str.startswith / str.endswith / `sub in s`
StartsWith(s, p) == Len(p) <= Len(s) /\ SubSeq(s, 1, Len(p)) = p
EndsWith(s, p) == Len(p) <= Len(s) /\ SubSeq(s, Len(s) - Len(p) + 1, Len(s)) = p
Contains(s, sub) == \E i \in 0..(Len(s) - Len(sub)) : SubSeq(s, i + 1, i + Len(sub)) = sub

\* str.split(sep) for a one-character separator: "" gives [""], "a//b" gives ["a","","b"]
RECURSIVE Split(_, _)
Split(s, sep) ==
    LET at == {i \in 1..Len(s) : s[i] = sep}
    IN  IF at = {} THEN <<s>>
        ELSE LET i == CHOOSE k \in at : \A j \in at : k <= j
             IN  <<SubSeq(s, 1, i - 1)>> \o Split(SubSeq(s, i + 1, Len(s)), sep)

\* sep.join(parts)
RECURSIVE Join(_, _)
Join(parts, sep) ==
    IF Len(parts) = 0 THEN <<>>
    ELSE IF Len(parts) = 1 THEN parts[1]
    ELSE parts[1] \o <<sep>> \o Join(Tail(parts), sep)

Last(q) == q[Len(q)]
Range(q) == {q[i] : i \in DOMAIN q}
MinOf(S) == CHOOSE x \in S : \A y \in S : x <= y
MaxOf(S) == CHOOSE x \in S : \A y \in S : x >= y

\* the sequences without repetition over S, of length at most n
DistinctSeqs(S, n) ==
    UNION {{q \in [1..k -> S] : \A i, j \in 1..k : i # j => q[i] # q[j]} : k \in 0..n}

(***************************************************************************)
(* CodeTemplateManager.match_files                                         *)
(***************************************************************************)
\* normalize_path with the '/' trimmed before the backslashes are replaced
normalize_path_trim_first(path) == Lower(ReplaceChar(StripChars(path, {"/"}), "\\", "/"))

\* normalize_path: path.replace('\\', '/').lower().strip('/')
normalize_path(path) == StripChars(Lower(ReplaceChar(path, "\\", "/")), {"/"})

\* {normalize_path(p): p for p in paths}: a dict keeps the position of a key's
\* first insertion and the value of its last one.  Items in iteration order.
PathMap(paths) ==
    LET first == {i \in 1..Len(paths) :
                    \A j \in 1..(i - 1) : normalize_path(paths[j]) # normalize_path(paths[i])}
        lastOf(n) == MaxOf({j \in 1..Len(paths) : normalize_path(paths[j]) = n})
        RECURSIVE Items(_)
        Items(i) ==
            IF i > Len(paths) THEN <<>>
            ELSE IF i \in first
                 THEN <<[norm |-> normalize_path(paths[i]),
                         orig |-> paths[lastOf(normalize_path(paths[i]))]]>> \o Items(i + 1)
                 ELSE Items(i + 1)
    IN  Items(1)

MatchState(m, ut, up) == [matches |-> m, used_templates |-> ut, used_projects |-> up]

\* Strategy 1: the nested loops over template_map.items() and project_map.items()
RECURSIVE ExactLoop(_, _, _, _)
ExactLoop(tmap, pmap, st, i) ==
    IF i > Len(tmap) THEN st
    ELSE LET hit == {j \in 1..Len(pmap) :
                        /\ tmap[i].norm = pmap[j].norm
                        /\ tmap[i].orig \notin st.used_templates
                        /\ pmap[j].orig \notin st.used_projects}
         IN  IF hit = {} THEN ExactLoop(tmap, pmap, st, i + 1)
             ELSE LET j == MinOf(hit)
                  IN  ExactLoop(tmap, pmap,
                                MatchState(Append(st.matches, <<tmap[i].orig, pmap[j].orig>>),
                                           st.used_templates \cup {tmap[i].orig},
                                           st.used_projects \cup {pmap[j].orig}),
                                i + 1)

\* the test of each later strategy between a template path and a project path
RootStripped(t, p) ==
    LET template_parts == Split(normalize_path(t), "/")
    IN  /\ Len(template_parts) > 1
        /\ Join(Tail(template_parts), "/") = normalize_path(p)

\* SameFilename on the paths as written, not on their normal forms
SameFilenameAsWritten(t, p) == Last(Split(t, "/")) = Last(Split(p, "/"))

SameFilename(t, p) ==
    Last(Split(normalize_path(t), "/")) = Last(Split(normalize_path(p), "/"))

SameLastTwo(t, p) ==
    LET template_parts == Split(normalize_path(t), "/")
        project_parts == Split(normalize_path(p), "/")
    IN  /\ Len(template_parts) >= 2
        /\ Len(project_parts) >= 2
        /\ SubSeq(template_parts, Len(template_parts) - 1, Len(template_parts))
             = SubSeq(project_parts, Len(project_parts) - 1, Len(project_parts))

Substring(t, p) ==
    \/ Contains(normalize_path(p), normalize_path(t))
    \/ EndsWith(normalize_path(p), normalize_path(t))

StrategyTest(s, t, p) ==
    CASE s = "root"     -> RootStripped(t, p)
      [] s = "filename" -> SameFilename(t, p)
      [] s = "suffix"   -> SameLastTwo(t, p)
      [] s = "substr"   -> Substring(t, p)

\* GreedyLoop without the `if project_orig in used_projects: continue` test
RECURSIVE GreedyLoopReusingProjects(_, _, _, _, _)
GreedyLoopReusingProjects(s, tps, pfs, st, i) ==
    IF i > Len(tps) THEN st
    ELSE IF tps[i] \in st.used_templates THEN GreedyLoopReusingProjects(s, tps, pfs, st, i + 1)
    ELSE LET hit == {j \in 1..Len(pfs) : StrategyTest(s, tps[i], pfs[j])}
         IN  IF hit = {} THEN GreedyLoopReusingProjects(s, tps, pfs, st, i + 1)
             ELSE LET j == MinOf(hit)
                  IN  GreedyLoopReusingProjects(s, tps, pfs,
                                 MatchState(Append(st.matches, <<tps[i], pfs[j]>>),
                                            st.used_templates \cup {tps[i]},
                                            st.used_projects \cup {pfs[j]}),
                                 i + 1)

\* Strategies 1.5, 2, 3, 4: for each unused template in order, the first unused
\* project in order that passes the test is committed (break).
RECURSIVE GreedyLoop(_, _, _, _, _)
GreedyLoop(s, tps, pfs, st, i) ==
    IF i > Len(tps) THEN st
    ELSE IF tps[i] \in st.used_templates THEN GreedyLoop(s, tps, pfs, st, i + 1)
    ELSE LET hit == {j \in 1..Len(pfs) :
                        pfs[j] \notin st.used_projects /\ StrategyTest(s, tps[i], pfs[j])}
         IN  IF hit = {} THEN GreedyLoop(s, tps, pfs, st, i + 1)
             ELSE LET j == MinOf(hit)
                  IN  GreedyLoop(s, tps, pfs,
                                 MatchState(Append(st.matches, <<tps[i], pfs[j]>>),
                                            st.used_templates \cup {tps[i]},
                                            st.used_projects \cup {pfs[j]}),
                                 i + 1)

\* Strategy 1 comparing the paths as written, not their normal forms
Strategy1Unnormalized(tps, pfs, st) ==
    LET raw(paths) == [i \in 1..Len(paths) |-> [norm |-> paths[i], orig |-> paths[i]]]
    IN  ExactLoop(raw(tps), raw(pfs), st, 1)

\* Strategy 2 with the test of strategy 3 in its place
Strategy2WithSuffixTest(tps, pfs, st) == GreedyLoop("suffix", tps, pfs, st, 1)

Strategy1(tps, pfs, st) == ExactLoop(PathMap(tps), PathMap(pfs), st, 1)
Strategy15(tps, pfs, st) == GreedyLoop("root", tps, pfs, st, 1)
Strategy2(tps, pfs, st) == GreedyLoop("filename", tps, pfs, st, 1)
Strategy3(tps, pfs, st) == GreedyLoop("suffix", tps, pfs, st, 1)
Strategy4(tps, pfs, st) == GreedyLoop("substr", tps, pfs, st, 1)

\* the whole function, as a value
match_files(tps, pfs) ==
    Strategy4(tps, pfs,
      Strategy3(tps, pfs,
        Strategy2(tps, pfs,
          Strategy15(tps, pfs,
            Strategy1(tps, pfs, MatchState(<<>>, {}, {})))))).matches

\* the same procedure without strategy 3
match_files_without_suffix(tps, pfs) ==
    Strategy4(tps, pfs,
      Strategy2(tps, pfs,
        Strategy15(tps, pfs,
          Strategy1(tps, pfs, MatchState(<<>>, {}, {}))))).matches

\* ---- inputs ----
MaxTemplates == 2
MaxProjects == 2

\* paths over the file names a and ba: a case variant with a leading separator,
\* a backslash variant, a root prefix over a shared two-segment tail, and a
\* name that contains another as a substring
PathPool ==
    { <<"a">>, <<"/", "A">>, <<"d", "/", "a">>, <<"d", "\\", "a">>,
      <<"r", "/", "d", "/", "a">>, <<"b", "a">> }

MatchInit ==
    /\ template_paths \in DistinctSeqs(PathPool, MaxTemplates)
    /\ project_files \in DistinctSeqs(PathPool, MaxProjects)
    /\ matches = <<>>
    /\ used_templates = {}
    /\ used_projects = {}
    /\ mpc = "exact"

CurrentMatchState == MatchState(matches, used_templates, used_projects)

MatchStep(from, to, st) ==
    /\ mpc = from
    /\ matches' = st.matches
    /\ used_templates' = st.used_templates
    /\ used_projects' = st.used_projects
    /\ mpc' = to
    /\ UNCHANGED <<template_paths, project_files, tvars, cvars, pvars, evars, nvars, gvars, dvars, avars, lvars, svars, uvars>>

ExactPass == MatchStep("exact", "root", Strategy1(template_paths, project_files, CurrentMatchState))
RootPass == MatchStep("root", "filename", Strategy15(template_paths, project_files, CurrentMatchState))
FilenamePass == MatchStep("filename", "suffix", Strategy2(template_paths, project_files, CurrentMatchState))
SuffixPass == MatchStep("suffix", "substr", Strategy3(template_paths, project_files, CurrentMatchState))
SubstringPass == MatchStep("substr", "done", Strategy4(template_paths, project_files, CurrentMatchState))

MatchNext == ExactPass \/ RootPass \/ FilenamePass \/ SuffixPass \/ SubstringPass

InitMatch == MatchInit /\ TreeIdle /\ ClassifyIdle /\ ParseIdle /\ ExtractIdle /\ NormalizeIdle /\ MergeIdle /\ DialogIdle /\ ApplyIdle /\ LevelIdle /\ ScanIdle /\ SessionIdle
SpecMatch == InitMatch /\ [][MatchNext]_vars

(***************************************************************************)
(* ScaffolderApp.parse_structure                                           *)
(***************************************************************************)
\* The characters of the tree drawings, named by code point.
BoxVert == "U+2502"      \* vertical connector
BoxTee == "U+251C"       \* branch
BoxEll == "U+2514"       \* last branch
BoxHoriz == "U+2500"     \* horizontal line
PageEmoji == "U+1F4C4"   \* page marker

\* the class [📄📂📁📋🔧🎨⚙️] of _calculate_level_fixed (⚙️ is two code points)
EmojiChars ==
    {"U+1F4C4", "U+1F4C2", "U+1F4C1", "U+1F4CB", "U+1F527", "U+1F3A8", "U+2699", "U+FE0F"}
\* the class of _clean_line: the box-drawing characters and the emoji
GlyphChars ==
    {"U+2502", "U+251C", "U+2514", "U+2500", "U+250C", "U+2510", "U+2518", "U+2524",
     "U+2534", "U+252C", "U+253C", "U+256D", "U+256E", "U+2570", "U+256F"} \cup EmojiChars

\* what str.strip() without arguments removes
Whitespace == {" ", "\t", "\r", "\f"}
Strip(s) == StripChars(s, Whitespace)

\* re.sub(r'[...]', '', line)
RemoveChars(s, cs) == SelectSeq(s, LAMBDA c : c \notin cs)
FirstIndex(s, c) == MinOf({i \in 1..Len(s) : s[i] = c})
CountOf(s, c) == Cardinality({i \in 1..Len(s) : s[i] = c})

\* _clean_line without the re.sub that removes the drawing characters
clean_line_keeping_glyphs(line) == Strip(line)

\* _clean_line
clean_line(line) == Strip(RemoveChars(line, GlyphChars))

\* the sum of line 1114: a character c of clean counts when it is a blank or a
\* tab and the text up to the first occurrence of c strips to nothing
leading_spaces(clean) ==
    LET counted(c) == /\ CountOf(clean, c) > 0
                      /\ Strip(SubSeq(clean, 1, FirstIndex(clean, c))) = <<>>
    IN  (IF counted("\t") THEN 4 * CountOf(clean, "\t") ELSE 0)
          + (IF counted(" ") THEN CountOf(clean, " ") ELSE 0)

\* `for unit in units: if n % unit == 0: return n // unit + plus`, else `otherwise`
RECURSIVE FirstUnit(_, _, _, _)
FirstUnit(units, n, plus, otherwise) ==
    IF units = <<>> THEN otherwise
    ELSE IF n % Head(units) = 0 THEN (n \div Head(units)) + plus
    ELSE FirstUnit(Tail(units), n, plus, otherwise)

\* _calculate_level_fixed without the branch on pipe_count
calculate_level_ignoring_pipes(line) ==
    LET clean == RemoveChars(line, EmojiChars)
        n == leading_spaces(clean)
        has_branch == CountOf(clean, BoxTee) > 0 \/ CountOf(clean, BoxEll) > 0
    IN  IF has_branch
        THEN (IF n = 0 THEN 1 ELSE FirstUnit(<<4, 2, 8, 3>>, n, 1, 1))
        ELSE (IF n = 0 THEN 0 ELSE FirstUnit(<<4, 2, 8>>, n, 0, n \div 4))

\* _calculate_level_fixed
calculate_level_fixed(line) ==
    LET clean == RemoveChars(line, EmojiChars)
        n == leading_spaces(clean)
        pipe_count == CountOf(clean, BoxVert)
        has_branch == CountOf(clean, BoxTee) > 0 \/ CountOf(clean, BoxEll) > 0
    IN  IF pipe_count > 0 THEN (IF has_branch THEN pipe_count + 1 ELSE pipe_count)
        ELSE IF has_branch
             THEN (IF n = 0 THEN 1 ELSE FirstUnit(<<4, 2, 8, 3>>, n, 1, 1))
             ELSE (IF n = 0 THEN 0 ELSE FirstUnit(<<4, 2, 8>>, n, 0, n \div 4))

\* the allow-list of _is_file
ExtensionlessFiles ==
    { <<"M","a","k","e","f","i","l","e">>, <<"D","o","c","k","e","r","f","i","l","e">>,
      <<"R","E","A","D","M","E">>, <<"L","I","C","E","N","S","E">> }

\* _is_file
is_file(name) ==
    IF Contains(name, <<".">>) /\ ~StartsWith(name, <<".">>) THEN TRUE
    ELSE IF name \in ExtensionlessFiles THEN TRUE
    ELSE StartsWith(name, <<".">>)

\* os.path.dirname (posixpath)
dirname(p) ==
    LET slashes == {i \in 1..Len(p) : p[i] = "/"}
        head == IF slashes = {} THEN <<>> ELSE SubSeq(p, 1, MaxOf(slashes))
    IN  IF head # <<>> /\ (\E i \in 1..Len(head) : head[i] # "/")
        THEN RStripChars(head, {"/"})
        ELSE head

\* dict assignment d[k] = v
DictSet(d, k, v) == [x \in DOMAIN d \cup {k} |-> IF x = k THEN v ELSE d[x]]
\* dict with the keys in K deleted
DictDrop(d, K) == [x \in DOMAIN d \ K |-> d[x]]

\* the truth value of `root_dir and ...`
RootSet(rd) == rd # None /\ rd[1] # <<>>

ParseState(f, d, c, l) == [files |-> f, dirs |-> d, comments |-> c, level_to_path |-> l]

\* lines 1072-1077: the path registered at the nearest lower level
parent_of(level, l2p) ==
    LET below == {k \in DOMAIN l2p : k >= 0 /\ k <= level - 1}
    IN  IF level > 0 /\ below # {} THEN l2p[MaxOf(below)] ELSE <<>>

\* lines 1100-1104 with range(1, len(parts)): the last ancestor is left out
ancestor_dirs_short(full_path) ==
    LET parent == dirname(full_path)
        parts == Split(parent, "/")
    IN  IF parent # <<>>
        THEN {Join(SubSeq(parts, 1, i), "/") : i \in 1..(Len(parts) - 1)}
        ELSE {}

\* lines 1100-1104: the ancestor directories of a file path
ancestor_dirs(full_path) ==
    LET parent == dirname(full_path)
        parts == Split(parent, "/")
    IN  IF parent # <<>>
        THEN {Join(SubSeq(parts, 1, i), "/") : i \in 1..Len(parts)}
        ELSE {}

\* lines 1086-1108: the entry is recorded
record_entry(st, line, cleaned, comment, full_path) ==
    LET level == calculate_level_fixed(line)
        is_dir == EndsWith(cleaned, <<"/">>)
        item_name == IF is_dir THEN SubSeq(cleaned, 1, Len(cleaned) - 1) ELSE cleaned
        c2 == IF comment # <<>> /\ full_path # <<>>
              THEN DictSet(st.comments, full_path, comment)
              ELSE st.comments
    IN  IF is_dir
        THEN IF full_path # <<>>
             THEN ParseState(st.files, st.dirs \cup {full_path}, c2,
                             DictDrop(DictSet(st.level_to_path, level, full_path),
                                      {k \in DOMAIN st.level_to_path : k > level}))
             ELSE ParseState(st.files, st.dirs, c2, st.level_to_path)
        ELSE IF is_file(item_name)
             THEN IF full_path # <<>>
                  THEN ParseState(Append(st.files, full_path),
                                  st.dirs \cup ancestor_dirs(full_path), c2, st.level_to_path)
                  ELSE ParseState(st.files, st.dirs, c2, st.level_to_path)
             ELSE IF full_path # <<>>
                  THEN ParseState(st.files, st.dirs \cup {full_path}, c2,
                                  DictSet(st.level_to_path, level, full_path))
                  ELSE ParseState(st.files, st.dirs, c2, st.level_to_path)

\* the body of `for line in lines` (lines 1053-1108) for one line
parse_line(st, rd, raw) ==
    IF Strip(raw) = <<>> THEN st
    ELSE
    LET has_hash == Contains(raw, <<"#">>)
        line == IF has_hash THEN SubSeq(raw, 1, FirstIndex(raw, "#") - 1) ELSE raw
        comment == IF has_hash THEN Strip(SubSeq(raw, FirstIndex(raw, "#") + 1, Len(raw)))
                   ELSE <<>>
        cleaned == clean_line(line)
    IN  IF cleaned = <<>> \/ (RootSet(rd) /\ cleaned = rd[1] \o <<"/">>)
        THEN ParseState(st.files, st.dirs, st.comments, <<>>)
        ELSE
        LET level == calculate_level_fixed(line)
            is_dir == EndsWith(cleaned, <<"/">>)
            item_name == IF is_dir THEN SubSeq(cleaned, 1, Len(cleaned) - 1) ELSE cleaned
            parent_path == parent_of(level, st.level_to_path)
            joined == IF parent_path # <<>> THEN parent_path \o <<"/">> \o item_name
                      ELSE item_name
        IN  IF RootSet(rd) /\ StartsWith(joined, rd[1] \o <<"/">>)
            THEN record_entry(st, line, cleaned, comment,
                              SubSeq(joined, Len(rd[1]) + 2, Len(joined)))
            ELSE IF RootSet(rd) /\ joined = rd[1] THEN st
            ELSE record_entry(st, line, cleaned, comment, joined)

\* lines 1046-1049: the root is taken from lines[0]
root_of(lines) ==
    LET first_cleaned == clean_line(lines[1])
    IN  IF EndsWith(first_cleaned, <<"/">>)
        THEN Some(SubSeq(first_cleaned, 1, Len(first_cleaned) - 1))
        ELSE None

\* the whole function as a value: (files, dirs, comments); sorted(set(files))
\* and sorted(dirs) are given as the sets they list
RECURSIVE parse_lines(_, _, _, _)
parse_lines(st, rd, lines, i) ==
    IF i > Len(lines) THEN st
    ELSE parse_lines(parse_line(st, rd, lines[i]), rd, lines, i + 1)

parse_structure(lines) ==
    LET st == parse_lines(ParseState(<<>>, {}, <<>>, <<>>), root_of(lines), lines, 1)
    IN  [files |-> Range(st.files), dirs |-> st.dirs, comments |-> st.comments]

\* ---- inputs ----
MaxLines == 3

\* "<branch>── " and "│   "
Branch(glyph) == <<glyph, BoxHoriz, BoxHoriz, " ">>
Trunk == <<BoxVert, " ", " ", " ">>
Note(t) == <<" ", " ", "#", " ">> \o t

\* lines of tree texts: two root lines, top-level and nested entries drawn with
\* connectors, annotated entries, a nested entry under a last child (four
\* blanks), a plain indented name, a plain path, a blank line and a bare connector
LinePool ==
    { <<"d", "/">>,
      <<"a", ".", "p", "/">>,
      Branch(BoxTee) \o <<"a", ".", "p">>,
      Branch(BoxEll) \o <<".", "g">>,
      Branch(BoxTee) \o <<"d", "/">>,
      Branch(BoxEll) \o <<"e", "/">> \o Note(<<"c">>),
      Trunk \o Branch(BoxEll) \o <<"a", ".", "p">> \o Note(<<"c">>),
      Trunk \o Branch(BoxEll) \o <<"a", ".", "p">> \o Note(<<"k", " ">>),
      Trunk \o Branch(BoxTee) \o <<"b", "/">>,
      <<" ", " ", " ", " ">> \o Branch(BoxEll) \o <<"a", ".", "p">>,
      <<" ", " ", "b">>,
      <<>>,
      <<BoxVert>>,
      <<"s", "/", "a", ".", "p">> }

SeqsUpTo(S, n) == UNION {[1..k -> S] : k \in 1..n}

TreeInit ==
    /\ text \in SeqsUpTo(LinePool, MaxLines)
    /\ root_dir = None
    /\ files = <<>>
    /\ dirs = {}
    /\ comments = <<>>
    /\ level_to_path = <<>>
    /\ tpc = 0

\* lines 1041-1051
ParseRoot ==
    /\ tpc = 0
    /\ root_dir' = root_of(text)
    /\ tpc' = 1
    /\ UNCHANGED <<text, files, dirs, comments, level_to_path, mvars, cvars, pvars, evars, nvars, gvars, dvars, avars, lvars, svars, uvars>>

\* one pass of the loop of line 1053
ParseLine ==
    /\ tpc \in 1..Len(text)
    /\ LET st == parse_line(ParseState(files, dirs, comments, level_to_path), root_dir, text[tpc])
       IN  /\ files' = st.files
           /\ dirs' = st.dirs
           /\ comments' = st.comments
           /\ level_to_path' = st.level_to_path
    /\ tpc' = tpc + 1
    /\ UNCHANGED <<text, root_dir, mvars, cvars, pvars, evars, nvars, gvars, dvars, avars, lvars, svars, uvars>>

TreeNext == ParseRoot \/ ParseLine

InitTree == TreeInit /\ MatchIdle /\ ClassifyIdle /\ ParseIdle /\ ExtractIdle /\ NormalizeIdle /\ MergeIdle /\ DialogIdle /\ ApplyIdle /\ LevelIdle /\ ScanIdle /\ SessionIdle
SpecTree == InitTree /\ [][TreeNext]_vars

\* parse_structure has returned
Parsed == tpc = Len(text) + 1

(***************************************************************************)
(* IntelligentTemplateParser                                               *)
(***************************************************************************)
\* KNOWN_EXTENSIONS
KNOWN_EXTENSIONS ==
    { <<".","p","y">>, <<".","j","s">>, <<".","t","s">>, <<".","t","s","x">>,
      <<".","j","s","x">>, <<".","j","a","v","a">>, <<".","c","p","p">>, <<".","c">>,
      <<".","h">>, <<".","h","p","p">>, <<".","g","o">>, <<".","r","s">>,
      <<".","r","b">>, <<".","p","h","p">>, <<".","s","w","i","f","t">>, <<".","k","t">>,
      <<".","s","c","a","l","a">>, <<".","s","h">>, <<".","b","a","s","h">>,
      <<".","h","t","m","l">>, <<".","c","s","s">>, <<".","s","c","s","s">>,
      <<".","s","a","s","s">>, <<".","l","e","s","s">>, <<".","x","m","l">>,
      <<".","j","s","o","n">>, <<".","y","a","m","l">>, <<".","y","m","l">>,
      <<".","m","d">>, <<".","t","x","t">>, <<".","s","q","l">>, <<".","e","n","v">>,
      <<".","t","o","m","l">>, <<".","i","n","i">>, <<".","c","f","g">>,
      <<".","c","o","n","f">>, <<".","v","u","e">>, <<".","s","v","e","l","t","e">>,
      <<".","d","a","r","t">>, <<".","r">>, <<".","l","u","a">>, <<".","p","e","r","l">>,
      <<".","p","l">> }

\* SPECIAL_FILES
SPECIAL_FILES ==
    { <<"M","a","k","e","f","i","l","e">>, <<"D","o","c","k","e","r","f","i","l","e">>,
      <<"J","e","n","k","i","n","s","f","i","l","e">>,
      <<"V","a","g","r","a","n","t","f","i","l","e">>, <<"R","E","A","D","M","E">>,
      <<"L","I","C","E","N","S","E">>, <<"C","H","A","N","G","E","L","O","G">>,
      <<"A","U","T","H","O","R","S">>,
      <<"C","O","N","T","R","I","B","U","T","I","N","G">>,
      <<".","g","i","t","i","g","n","o","r","e">>,
      <<".","d","o","c","k","e","r","i","g","n","o","r","e">>,
      <<".","e","s","l","i","n","t","r","c">>,
      <<".","p","r","e","t","t","i","e","r","r","c">>,
      <<".","b","a","b","e","l","r","c">>,
      <<".","e","d","i","t","o","r","c","o","n","f","i","g">>, <<".","e","n","v">>,
      <<".","e","n","v",".","e","x","a","m","p","l","e">> }

\* confidences in hundredths (0.95 is 95)
FencedConfidence == 95
DashedConfidence == 90
BarePathConfidence == 80
BarePathBeforeBlank == 85
BarePathAfterSeparator == 90
EmbeddedConfidence == 60
ConfidenceFloor == 55
\* the longest path _is_valid_filepath accepts
MaxPathLength == 200
\* the shortest run of '-'/'=' that makes a separator line
SeparatorRun == 10

Digits == {"0", "1", "2", "3", "4", "5", "6", "7", "8", "9"}
Letters == Range(UpperCase) \cup Range(LowerCase)
\* the class [a-zA-Z0-9_\-./\\] of path_pattern
PathChars == Letters \cup Digits \cup {"_", "-", ".", "/", "\\"}
InvalidChars == {"<", ">", "\"", "|", "?", "*"}
DashChars == {"-", "="}

\* the length of the longest run of characters of C that starts at position i
RunLen(s, i, C) ==
    LET stop == {j \in i..Len(s) : s[j] \notin C}
    IN  IF i > Len(s) THEN 0
        ELSE IF stop = {} THEN Len(s) - i + 1
        ELSE MinOf(stop) - i

\* re.match(r'^#+\s*[-=]{10,}\s*$', s)
is_separator(s) ==
    LET a == RunLen(s, 1, {"#"})
        b == RunLen(s, a + 1, Whitespace)
        c == RunLen(s, a + b + 1, DashChars)
        d == RunLen(s, a + b + c + 1, Whitespace)
    IN  a >= 1 /\ c >= SeparatorRun /\ a + b + c + d = Len(s)

\* re.sub(r'^#+\s*', '', stripped)
header_content(stripped) ==
    LET a == RunLen(stripped, 1, {"#"})
        b == RunLen(stripped, a + 1, Whitespace)
    IN  SubSeq(stripped, a + b + 1, Len(stripped))

\* _is_valid_filepath without the last return False: any name is a path
is_valid_filepath_any_name(path) ==
    IF path = <<>> \/ Len(path) > MaxPathLength THEN FALSE
    ELSE ~\E i \in 1..Len(path) : path[i] \in InvalidChars

\* _is_valid_filepath
is_valid_filepath(path) ==
    IF path = <<>> \/ Len(path) > MaxPathLength THEN FALSE
    ELSE IF \E i \in 1..Len(path) : path[i] \in InvalidChars THEN FALSE
    ELSE LET filename == Last(Split(Last(Split(path, "/")), "\\"))
             ext == <<".">> \o Lower(Last(Split(filename, ".")))
             parts == Split(ReplaceChar(path, "\\", "/"), "/")
         IN  IF filename \in SPECIAL_FILES THEN TRUE
             ELSE IF Contains(filename, <<".">>) /\ ext \in KNOWN_EXTENSIONS THEN TRUE
             ELSE IF Contains(path, <<"/">>) \/ Contains(path, <<"\\">>)
                  THEN Len(parts) >= 2 /\ \A i \in 1..Len(parts) : Strip(parts[i]) # <<>>
                  ELSE FALSE

\* re.match(r'^=+\s*(.+?)\s*=+$', content): group(1) as Some(..), or None.
\* The first success of the backtracking search: the longest '=' run, then
\* the longest blank run, then the shortest group.
fenced_group(content) ==
    LET n == Len(content)
        tail_ok(i) == LET a == RunLen(content, i, Whitespace)
                          b == RunLen(content, i + a, {"="})
                      IN  b >= 1 /\ i + a + b - 1 = n
        starts == UNION {{<<k, w>> : w \in 0..RunLen(content, k + 1, Whitespace)} :
                            k \in 1..RunLen(content, 1, {"="})}
        ok == UNION {{<<st[1], st[2], g>> :
                         g \in {h \in 1..(n - st[1] - st[2] - 1) :
                                   tail_ok(st[1] + st[2] + h + 1)}} : st \in starts}
        before(x, y) == \/ x[1] > y[1]
                        \/ x[1] = y[1] /\ x[2] > y[2]
                        \/ x[1] = y[1] /\ x[2] = y[2] /\ x[3] <= y[3]
    IN  IF ok = {} THEN None
        ELSE LET m == CHOOSE x \in ok : \A y \in ok : before(x, y)
             IN  Some(SubSeq(content, m[1] + m[2] + 1, m[1] + m[2] + m[3]))

\* re.match(r'^(.+?)\s+[-=]{3,}$', content): group(1) as Some(..), or None
dashed_group(content) ==
    LET n == Len(content)
        ok == {g \in 1..n :
                 LET a == RunLen(content, g + 1, Whitespace)
                     b == RunLen(content, g + a + 1, DashChars)
                 IN  a >= 1 /\ b >= 3 /\ g + a + b = n}
    IN  IF ok = {} THEN None ELSE Some(SubSeq(content, 1, MinOf(ok)))

\* re.findall(path_pattern, content): the maximal runs of path characters, in order
RECURSIVE path_tokens(_, _)
path_tokens(content, i) ==
    IF i > Len(content) THEN <<>>
    ELSE IF content[i] \notin PathChars THEN path_tokens(content, i + 1)
    ELSE LET r == RunLen(content, i, PathChars)
         IN  <<SubSeq(content, i, i + r - 1)>> \o path_tokens(content, i + r)

Header(path, confidence) == [filepath |-> path, confidence |-> confidence]

\* lines 136-150 with the two checks in the other order: the line that
\* follows decides last
bare_path_confidence_next_last(line_num, all_lines) ==
    LET next_line == Strip(all_lines[line_num + 2])
        prev_line == Strip(all_lines[line_num])
        c1 == IF line_num > 0 /\ is_separator(prev_line)
              THEN BarePathAfterSeparator ELSE BarePathConfidence
    IN  IF /\ line_num + 1 < Len(all_lines)
           /\ \/ next_line = <<>>
              \/ StartsWith(next_line, <<"\"", "\"", "\"">>)
              \/ StartsWith(next_line, <<"'", "'", "'">>)
        THEN BarePathBeforeBlank ELSE c1

\* lines 136-150: the confidence of a bare path line from its neighbours
bare_path_confidence(line_num, all_lines) ==
    LET next_line == Strip(all_lines[line_num + 2])
        prev_line == Strip(all_lines[line_num])
        c1 == IF /\ line_num + 1 < Len(all_lines)
                 /\ \/ next_line = <<>>
                    \/ StartsWith(next_line, <<"\"", "\"", "\"">>)
                    \/ StartsWith(next_line, <<"'", "'", "'">>)
              THEN BarePathBeforeBlank ELSE BarePathConfidence
    IN  IF line_num > 0 /\ is_separator(prev_line) THEN BarePathAfterSeparator ELSE c1

\* lines 152-163: the first valid token that fills more than half of the content
embedded_path(content) ==
    LET toks == path_tokens(content, 1)
        ok == {i \in 1..Len(toks) :
                 is_valid_filepath(toks[i]) /\ 2 * Len(toks[i]) > Len(content)}
    IN  IF ok = {} THEN None ELSE Some(Header(toks[MinOf(ok)], EmbeddedConfidence))

\* _analyze_line_as_header; line_num counts from 0 as in the code
analyze_line_as_header(line, line_num, all_lines) ==
    LET stripped == Strip(line)
        content == header_content(stripped)
        g1 == fenced_group(content)
        g2 == dashed_group(content)
    IN  IF stripped = <<>> \/ ~StartsWith(stripped, <<"#">>) THEN None
        ELSE IF g1 # None /\ is_valid_filepath(Strip(g1[1]))
             THEN Some(Header(Strip(g1[1]), FencedConfidence))
        ELSE IF g2 # None /\ is_valid_filepath(Strip(g2[1]))
             THEN Some(Header(Strip(g2[1]), DashedConfidence))
        ELSE IF is_valid_filepath(content)
             THEN Some(Header(content, bare_path_confidence(line_num, all_lines)))
        ELSE embedded_path(content)

Entry(line_num, h) == [line |-> line_num, filepath |-> h.filepath, confidence |-> h.confidence]

\* filepath.replace('\\', '/')
normalized(filepath) == ReplaceChar(filepath, "\\", "/")

\* lines 214-223 without the replacement: the first header seen stays
keep_header_first_seen(filtered, h) ==
    LET same == {i \in 1..Len(filtered) : normalized(filtered[i].filepath) = normalized(h.filepath)}
    IN  IF h.confidence < ConfidenceFloor THEN filtered
        ELSE IF same = {} THEN Append(filtered, h)
        ELSE filtered

\* lines 214-223 with a later header of equal confidence taking the place
keep_header_later_wins(filtered, h) ==
    LET same == {i \in 1..Len(filtered) : normalized(filtered[i].filepath) = normalized(h.filepath)}
    IN  IF h.confidence < ConfidenceFloor THEN filtered
        ELSE IF same = {} THEN Append(filtered, h)
        ELSE LET i == MinOf(same)
             IN  IF h.confidence >= filtered[i].confidence
                 THEN [filtered EXCEPT ![i] = h] ELSE filtered

\* one turn of the loop of _filter_headers (lines 205-223)
keep_header(filtered, h) ==
    LET same == {i \in 1..Len(filtered) : normalized(filtered[i].filepath) = normalized(h.filepath)}
    IN  IF h.confidence < ConfidenceFloor THEN filtered
        ELSE IF same = {} THEN Append(filtered, h)
        ELSE LET i == MinOf(same)
             IN  IF h.confidence > filtered[i].confidence
                 THEN [filtered EXCEPT ![i] = h] ELSE filtered

\* sorted(filtered, key=lambda x: x[0]): the entries by rising line number
RECURSIVE sort_by_line(_)
sort_by_line(hs) ==
    IF hs = <<>> THEN <<>>
    ELSE LET i == CHOOSE i \in 1..Len(hs) : \A j \in 1..Len(hs) : hs[i].line <= hs[j].line
         IN  <<hs[i]>> \o sort_by_line(SubSeq(hs, 1, i - 1) \o SubSeq(hs, i + 1, Len(hs)))

RECURSIVE filter_loop(_, _)
filter_loop(headers, filtered) ==
    IF headers = <<>> THEN filtered
    ELSE filter_loop(Tail(headers), keep_header(filtered, Head(headers)))

\* _filter_headers
filter_headers(headers) == sort_by_line(filter_loop(headers, <<>>))

\* lines 92-96: the candidate headers of the lines from position i on
RECURSIVE candidate_headers(_, _)
candidate_headers(all_lines, i) ==
    IF i > Len(all_lines) THEN <<>>
    ELSE LET r == analyze_line_as_header(all_lines[i], i - 1, all_lines)
         IN  (IF r = None THEN <<>> ELSE <<Entry(i - 1, r[1])>>)
                 \o candidate_headers(all_lines, i + 1)

\* _scan_file_headers
scan_file_headers(all_lines) == filter_headers(sort_by_line(candidate_headers(all_lines, 1)))

TripleDouble == <<"\"", "\"", "\"">>
TripleSingle == <<"'", "'", "'">>

\* lines 244-272 without lines 258-260: a blank line after a separator stays
extract_step_keeping_blank(st, line) ==
    LET stripped == Strip(line)
        opens == Contains(line, TripleDouble) \/ Contains(line, TripleSingle)
        char == IF Contains(line, TripleDouble) THEN TripleDouble ELSE TripleSingle
    IN  IF is_separator(stripped) \/ stripped = <<"-", "-", "-">>
        THEN [st EXCEPT !.skip_next_empty = TRUE]
        ELSE [code_lines |-> Append(st.code_lines, line),
              skip_next_empty |-> FALSE,
              in_docstring |-> IF opens /\ ~st.in_docstring THEN TRUE
                               ELSE IF opens /\ Contains(line, st.docstring_char) THEN FALSE
                               ELSE st.in_docstring,
              docstring_char |-> IF opens /\ ~st.in_docstring THEN char
                                 ELSE st.docstring_char]

\* one turn of the loop of _extract_code (lines 244-272)
extract_step(st, line) ==
    LET stripped == Strip(line)
        opens == Contains(line, TripleDouble) \/ Contains(line, TripleSingle)
        char == IF Contains(line, TripleDouble) THEN TripleDouble ELSE TripleSingle
    IN  IF is_separator(stripped) \/ stripped = <<"-", "-", "-">>
        THEN [st EXCEPT !.skip_next_empty = TRUE]
        ELSE IF st.skip_next_empty /\ stripped = <<>>
        THEN [st EXCEPT !.skip_next_empty = FALSE]
        ELSE [code_lines |-> Append(st.code_lines, line),
              skip_next_empty |-> FALSE,
              in_docstring |-> IF opens /\ ~st.in_docstring THEN TRUE
                               ELSE IF opens /\ Contains(line, st.docstring_char) THEN FALSE
                               ELSE st.in_docstring,
              docstring_char |-> IF opens /\ ~st.in_docstring THEN char
                                 ELSE st.docstring_char]

RECURSIVE extract_loop(_, _)
extract_loop(ls, st) ==
    IF ls = <<>> THEN st ELSE extract_loop(Tail(ls), extract_step(st, Head(ls)))

\* lines 275-278: drop the blank lines at both ends
RECURSIVE trim_blank_lines(_)
trim_blank_lines(ls) ==
    IF ls = <<>> THEN <<>>
    ELSE IF Strip(ls[1]) = <<>> THEN trim_blank_lines(Tail(ls))
    ELSE IF Strip(ls[Len(ls)]) = <<>> THEN trim_blank_lines(SubSeq(ls, 1, Len(ls) - 1))
    ELSE ls

\* _extract_code; the code is kept as its list of lines, which '\n'.join glues
extract_code(ls) ==
    trim_blank_lines(extract_loop(ls, [code_lines |-> <<>>, skip_next_empty |-> FALSE,
                                       in_docstring |-> FALSE, docstring_char |-> <<>>]).code_lines)

\* code.strip() of the joined lines is not empty
has_code(code) == \E i \in 1..Len(code) : Strip(code[i]) # <<>>

\* lines 73-77: the block of the i-th surviving header
block_of(all_lines, headers, i) ==
    LET next_line == IF i + 1 <= Len(headers) THEN headers[i + 1].line ELSE Len(all_lines)
    IN  extract_code(SubSeq(all_lines, headers[i].line + 2, next_line))

\* templates[filepath] = code on a dict kept in insertion order
dict_put(d, key, value) ==
    LET at == {i \in 1..Len(d) : d[i].filepath = key}
    IN  IF at = {} THEN Append(d, [filepath |-> key, code |-> value])
        ELSE [d EXCEPT ![MinOf(at)].code = value]

\* lines 71-80 from the i-th header on
RECURSIVE parse_from(_, _, _, _)
parse_from(all_lines, headers, i, tpl) ==
    IF i > Len(headers) THEN tpl
    ELSE LET code == block_of(all_lines, headers, i)
         IN  parse_from(all_lines, headers, i + 1,
                        IF has_code(code) THEN dict_put(tpl, headers[i].filepath, code) ELSE tpl)

\* parse, from the lines content.split('\n') gives
parse(all_lines) == parse_from(all_lines, scan_file_headers(all_lines), 1, <<>>)

\* the longest blob, in lines
MaxBlobLines == 3

\* lines of template blobs: a path fenced by '=' runs, followed by dashes,
\* bare, bare with either separator, bare in another case, and inside a
\* remark; a special filename; a separator, prose, code, a docstring
\* delimiter and a blank line
BlobLinePool ==
    { <<"#", " ", "=", "=", "=", " ", "a", ".", "c", " ", "=", "=", "=">>,
      <<"#", " ", "a", ".", "c", " ", "-", "-", "-">>,
      <<"#", " ", "a", ".", "c">>,
      <<"#", " ", "d", "/", "a", ".", "c">>,
      <<"#", " ", "d", "\\", "a", ".", "c">>,
      <<"#", " ", "A", ".", "c">>,
      <<"#", " ", "o", "k", " ", "a", ".", "c">>,
      <<"#", " ", "M", "a", "k", "e", "f", "i", "l", "e">>,
      <<"#", " ", "-", "-", "-", "-", "-", "-", "-", "-", "-", "-">>,
      <<"#", " ", "n", "o", "t", "e">>,
      <<"x", " ", "=", " ", "1">>,
      <<"'", "'", "'">>,
      <<>> }

ParseInit ==
    /\ content_lines \in SeqsUpTo(BlobLinePool, MaxBlobLines)
    /\ file_headers = <<>>
    /\ templates = <<>>
    /\ hidx = 0

\* line 68
ScanHeaders ==
    /\ hidx = 0
    /\ file_headers' = scan_file_headers(content_lines)
    /\ hidx' = 1
    /\ UNCHANGED <<content_lines, templates, mvars, tvars, cvars, evars, nvars, gvars, dvars, avars, lvars, svars, uvars>>

\* lines 71-80, one turn of the loop
ExtractBlock ==
    /\ hidx >= 1 /\ hidx <= Len(file_headers)
    /\ LET code == block_of(content_lines, file_headers, hidx)
       IN  templates' = IF has_code(code)
                        THEN dict_put(templates, file_headers[hidx].filepath, code)
                        ELSE templates
    /\ hidx' = hidx + 1
    /\ UNCHANGED <<content_lines, file_headers, mvars, tvars, cvars, evars, nvars, gvars, dvars, avars, lvars, svars, uvars>>

ParseNext == ScanHeaders \/ ExtractBlock

InitParse == ParseInit /\ MatchIdle /\ TreeIdle /\ ClassifyIdle /\ ExtractIdle /\ NormalizeIdle /\ MergeIdle /\ DialogIdle /\ ApplyIdle /\ LevelIdle /\ ScanIdle /\ SessionIdle
SpecParse == InitParse /\ [][ParseNext]_vars

\* _scan_file_headers has returned
Scanned == hidx >= 1
\* parse has returned
Returned == hidx = Len(file_headers) + 1

(***************************************************************************)
(* IntelligentTemplateParser._extract_code, line by line                   *)
(***************************************************************************)
\* the longest span of lines handed to _extract_code
MaxSpanLines == 4

\* lines of a span: a separator, a blank and a whitespace-only line, code, the
\* YAML document marker, a comment of three dashes and a docstring delimiter
SpanLinePool ==
    { <<"#", " ", "-", "-", "-", "-", "-", "-", "-", "-", "-", "-">>,
      <<>>,
      <<" ", " ">>,
      <<"x", " ", "=", " ", "1">>,
      <<"-", "-", "-">>,
      <<"#", " ", "-", "-", "-">>,
      <<"'", "'", "'">> }

\* lines 239-242
ExtractInit ==
    /\ ex_lines \in {<<>>} \cup SeqsUpTo(SpanLinePool, MaxSpanLines)
    /\ ex_locals = [code_lines |-> <<>>, skip_next_empty |-> FALSE,
                    in_docstring |-> FALSE, docstring_char |-> <<>>]
    /\ ex_result = None
    /\ ex_i = 1

\* lines 244-272, one turn of the loop
ExtractLine ==
    /\ ex_i >= 1 /\ ex_i <= Len(ex_lines)
    /\ ex_locals' = extract_step(ex_locals, ex_lines[ex_i])
    /\ ex_i' = ex_i + 1
    /\ UNCHANGED <<ex_lines, ex_result, mvars, tvars, cvars, pvars, nvars, gvars, dvars, avars, lvars, svars, uvars>>

\* lines 236-237 and 274-280
ExtractReturn ==
    /\ ex_i = Len(ex_lines) + 1
    /\ ex_result' = Some(trim_blank_lines(ex_locals.code_lines))
    /\ ex_i' = ex_i + 1
    /\ UNCHANGED <<ex_lines, ex_locals, mvars, tvars, cvars, pvars, nvars, gvars, dvars, avars, lvars, svars, uvars>>

ExtractNext == ExtractLine \/ ExtractReturn

InitExtract == ExtractInit /\ MatchIdle /\ TreeIdle /\ ClassifyIdle /\ ParseIdle /\ NormalizeIdle /\ MergeIdle /\ DialogIdle /\ ApplyIdle /\ LevelIdle /\ ScanIdle /\ SessionIdle
SpecExtract == InitExtract /\ [][ExtractNext]_vars

\* _extract_code has returned
Extracted == ex_result # None

(***************************************************************************)
(* normalize_path, applied to its own result                               *)
(***************************************************************************)
\* the longest path string, in characters
MaxPathChars == 3

\* the characters of the path strings: a lower-case and an upper-case letter
\* and the two separators
PathAlphabet == {"a", "B", "/", "\\"}

\* a call normalize_path(path)
NormalizeInit ==
    /\ n_path \in {<<>>} \cup SeqsUpTo(PathAlphabet, MaxPathChars)
    /\ n_once = None
    /\ n_twice = None

\* line 368
NormalizeOnce ==
    /\ n_once = None
    /\ n_once' = Some(normalize_path(n_path))
    /\ UNCHANGED <<n_path, n_twice, mvars, tvars, cvars, pvars, evars, gvars, dvars, avars, lvars, svars, uvars>>

\* line 368, on the string returned by the first call
NormalizeAgain ==
    /\ n_once # None /\ n_twice = None
    /\ n_twice' = Some(normalize_path(n_once[1]))
    /\ UNCHANGED <<n_path, n_once, mvars, tvars, cvars, pvars, evars, gvars, dvars, avars, lvars, svars, uvars>>

NormalizeNext == NormalizeOnce \/ NormalizeAgain

InitNormalize == NormalizeInit /\ MatchIdle /\ TreeIdle /\ ClassifyIdle /\ ParseIdle /\ ExtractIdle /\ MergeIdle /\ DialogIdle /\ ApplyIdle /\ LevelIdle /\ ScanIdle /\ SessionIdle
SpecNormalize == InitNormalize /\ [][NormalizeNext]_vars

(***************************************************************************)
(* MetadataManager.merge_metadata                                          *)
(***************************************************************************)
\* the number of paths the two maps may speak about
MaxMetaKeys == 2

MetaKeyNames == <<"a", "b", "c", "d">>
\* the paths, and the comments: the empty one and two others
MetaKeys == {<<MetaKeyNames[i]>> : i \in 1..MaxMetaKeys}
MetaComments == {<<>>, <<"x">>, <<"y">>}
\* the dicts from paths to comments
MetaDicts == UNION {[K -> MetaComments] : K \in SUBSET MetaKeys}

\* lines 526-527 with the test of line 526 left out
merge_item_always(result, path, comment) == DictSet(result, path, comment)

\* lines 526-527: the body of the loop
merge_item(result, path, comment) ==
    IF comment # <<>> THEN DictSet(result, path, comment) ELSE result

MergeInit ==
    /\ md_existing \in MetaDicts
    /\ md_new \in MetaDicts
    /\ md_result = <<>>
    /\ md_todo = {}
    /\ md_pc = "copy"

\* line 524: result = existing.copy()
MergeCopy ==
    /\ md_pc = "copy"
    /\ md_result' = md_existing
    /\ md_todo' = DOMAIN md_new
    /\ md_pc' = "loop"
    /\ UNCHANGED <<md_existing, md_new, mvars, tvars, cvars, pvars, evars, nvars, dvars, avars, lvars, svars, uvars>>

\* lines 525-527: one item of new_data.items()
MergeItem ==
    /\ md_pc = "loop"
    /\ \E path \in md_todo :
          /\ md_result' = merge_item(md_result, path, md_new[path])
          /\ md_todo' = md_todo \ {path}
    /\ UNCHANGED <<md_existing, md_new, md_pc, mvars, tvars, cvars, pvars, evars, nvars, dvars, avars, lvars, svars, uvars>>

\* line 528
MergeReturn ==
    /\ md_pc = "loop" /\ md_todo = {}
    /\ md_pc' = "done"
    /\ UNCHANGED <<md_existing, md_new, md_result, md_todo, mvars, tvars, cvars, pvars, evars, nvars, dvars, avars, lvars, svars, uvars>>

MergeNext == MergeCopy \/ MergeItem \/ MergeReturn

InitMerge == MergeInit /\ MatchIdle /\ TreeIdle /\ ClassifyIdle /\ ParseIdle /\ ExtractIdle /\ NormalizeIdle /\ DialogIdle /\ ApplyIdle /\ LevelIdle /\ ScanIdle /\ SessionIdle
SpecMerge == InitMerge /\ [][MergeNext]_vars

\* merge_metadata has returned
Merged == md_pc = "done"

(***************************************************************************)
(* ScaffolderApp.show_fill_dialog: the status of each row                  *)
(***************************************************************************)
\* the most matches a dialog shows
MaxRows == 2

TemplateNames == <<"t1", "t2", "t3", "t4">>
FileNames == <<"f1", "f2", "f3", "f4">>

\* str.strip() of a text of several lines
StripText(s) == StripChars(s, Whitespace \cup {"\n"})

\* a file on disk: missing, holding text, or holding bytes that read_text
\* cannot decode as UTF-8 (it raises)
File(exists, readable, content) ==
    [exists |-> exists, readable |-> readable, content |-> content]
AbsentFile == File(FALSE, FALSE, <<>>)
UndecodableFile == File(TRUE, FALSE, <<"0xFF">>)
\* texts of files: of length zero, blank, the body of the template with and
\* without blanks around it, and another text
FileTexts == {<<>>, <<" ", "\n">>, <<"x">>, <<"x", "\n">>, <<" ", "x">>, <<"y">>}
FileStates == {AbsentFile, UndecodableFile} \cup {File(TRUE, TRUE, c) : c \in FileTexts}
\* bodies of templates: parse returns none that is blank
TemplateBodies == {<<"x">>, <<" ", "x">>}

StatusNew == "New file"
StatusEmpty == "Empty file"
StatusDifferent == "Different content - will overwrite"
StatusSame == "Same content"

\* lines 1266-1276 and 1292-1304: the status of one row
row_status(file, body) ==
    LET read_ok == file.exists /\ file.readable
        current == StripText(file.content)
        has_content == read_ok /\ Len(current) > 0
        content_differs == read_ok /\ current # StripText(body)
    IN  IF ~file.exists THEN StatusNew
        ELSE IF ~has_content THEN StatusEmpty
        ELSE IF content_differs THEN StatusDifferent
        ELSE StatusSame

\* lines 1282-1283 and 1304: the value of the row's BooleanVar
row_checked(file, body) == row_status(file, body) # StatusSame

DialogInit ==
    /\ \E n \in 1..MaxRows :
          /\ dlg_matches = [i \in 1..n |-> <<TemplateNames[i], FileNames[i]>>]
          /\ dlg_templates \in [{TemplateNames[i] : i \in 1..n} -> TemplateBodies]
          /\ dlg_disk \in [{FileNames[i] : i \in 1..n} -> FileStates]
    /\ status_text = <<>>
    /\ check_vars = <<>>
    /\ dlg_i = 1

\* lines 1264-1307, one turn of the loop
FillRow ==
    /\ dlg_i >= 1 /\ dlg_i <= Len(dlg_matches)
    /\ LET template_path == dlg_matches[dlg_i][1]
           project_file == dlg_matches[dlg_i][2]
           file == dlg_disk[project_file]
           body == dlg_templates[template_path]
       IN  /\ status_text' = DictSet(status_text, project_file, row_status(file, body))
           /\ check_vars' = DictSet(check_vars, project_file, row_checked(file, body))
    /\ dlg_i' = dlg_i + 1
    /\ UNCHANGED <<dlg_matches, dlg_templates, dlg_disk, mvars, tvars, cvars, pvars, evars, nvars, gvars, avars, lvars, svars, uvars>>

DialogNext == FillRow

InitDialog == DialogInit /\ MatchIdle /\ TreeIdle /\ ClassifyIdle /\ ParseIdle /\ ExtractIdle /\ NormalizeIdle /\ MergeIdle /\ ApplyIdle /\ LevelIdle /\ ScanIdle /\ SessionIdle
SpecDialog == InitDialog /\ [][DialogNext]_vars

(***************************************************************************)
(* ScaffolderApp.apply_templates                                           *)
(***************************************************************************)
\* Path.read_text: the bytes decoded, with '\r\n' and '\r' turned into '\n'
\* (text mode with newline=None)
RECURSIVE read_text(_)
read_text(bytes) ==
    IF bytes = <<>> THEN <<>>
    ELSE IF Head(bytes) # "\r" THEN <<Head(bytes)>> \o read_text(Tail(bytes))
    ELSE IF Len(bytes) >= 2 /\ bytes[2] = "\n"
         THEN <<"\n">> \o read_text(SubSeq(bytes, 3, Len(bytes)))
         ELSE <<"\n">> \o read_text(Tail(bytes))

\* os.linesep
linesep(os) == IF os = "nt" THEN <<"\r", "\n">> ELSE <<"\n">>

\* Path.write_text: the bytes written, every '\n' of the text as os.linesep
RECURSIVE write_text(_, _)
write_text(data, os) ==
    IF data = <<>> THEN <<>>
    ELSE (IF Head(data) = "\n" THEN linesep(os) ELSE <<Head(data)>>)
            \o write_text(Tail(data), os)

\* CodeTemplateManager.backup_file: the text read_text gives, None when the
\* file is missing or cannot be read
backup_file(file) ==
    IF file.exists /\ file.readable THEN Some(read_text(file.content)) ELSE None

\* lines 1345-1350 with the file recorded whatever write_file returned
record_write_always(recorded, path, backup, written) == DictSet(recorded, path, backup)

\* lines 1345-1347: operation['files'] after write_file has returned
record_write(recorded, path, backup, written) ==
    IF written THEN DictSet(recorded, path, backup) ELSE recorded

\* the states of a file before the batch
ApplyFileStates == {AbsentFile, UndecodableFile, File(TRUE, TRUE, <<>>), File(TRUE, TRUE, <<"y">>)}
\* self.template_history before the call: empty, or one earlier operation
EarlierOperation == [timestamp |-> "earlier", files |-> [f4 |-> None]]
Operation(recorded) == [timestamp |-> "now", files |-> recorded]

ApplyInit ==
    /\ \E n \in 1..MaxRows :
          /\ ap_matches = [i \in 1..n |-> <<TemplateNames[i], FileNames[i]>>]
          /\ ap_templates = [t \in {TemplateNames[i] : i \in 1..n} |-> <<"x">>]
          /\ ap_checked \in [{FileNames[i] : i \in 1..n} -> BOOLEAN]
          /\ ap_disk \in [{FileNames[i] : i \in 1..n} -> ApplyFileStates]
    /\ write_log = <<>>
    /\ selected = {}
    /\ op_files = <<>>
    /\ success = 0
    /\ error = 0
    /\ errors = <<>>
    /\ template_history \in {<<>>, <<EarlierOperation>>}
    /\ ap_i = 0
    /\ ap_pc = "start"

\* lines 1326-1336: nothing selected ends the call
ApplyStart ==
    /\ ap_pc = "start"
    /\ selected' = {f \in DOMAIN ap_checked : ap_checked[f]}
    /\ IF selected' = {} THEN ap_pc' = "done" /\ ap_i' = ap_i
                         ELSE ap_pc' = "loop" /\ ap_i' = 1
    /\ UNCHANGED <<ap_matches, ap_templates, ap_checked, ap_disk, write_log, op_files,
                   success, error, errors, template_history,
                   mvars, tvars, cvars, pvars, evars, nvars, gvars, dvars, lvars, svars, uvars>>

\* lines 1339-1340
ApplySkip ==
    /\ ap_pc = "loop" /\ ap_i <= Len(ap_matches)
    /\ ap_matches[ap_i][2] \notin selected
    /\ ap_i' = ap_i + 1
    /\ UNCHANGED <<ap_matches, ap_templates, ap_checked, ap_disk, write_log, selected,
                   op_files, success, error, errors, template_history, ap_pc,
                   mvars, tvars, cvars, pvars, evars, nvars, gvars, dvars, lvars, svars, uvars>>

\* lines 1342-1347: write_file returns True
ApplyWriteOk ==
    /\ ap_pc = "loop" /\ ap_i <= Len(ap_matches)
    /\ ap_matches[ap_i][2] \in selected
    /\ LET template_path == ap_matches[ap_i][1]
           project_file == ap_matches[ap_i][2]
           backup == backup_file(ap_disk[project_file])
       IN  /\ write_log' = Append(write_log, [file |-> project_file,
                                              before |-> ap_disk[project_file], written |-> TRUE])
           /\ ap_disk' = [ap_disk EXCEPT ![project_file] = File(TRUE, TRUE, ap_templates[template_path])]
           /\ op_files' = record_write(op_files, project_file, backup, TRUE)
    /\ success' = success + 1
    /\ ap_i' = ap_i + 1
    /\ UNCHANGED <<ap_matches, ap_templates, ap_checked, selected, error, errors,
                   template_history, ap_pc,
                   mvars, tvars, cvars, pvars, evars, nvars, gvars, dvars, lvars, svars, uvars>>

\* lines 1342-1350: write_file returns False; the file is as before, or is
\* left empty by a write that failed after the file was opened
ApplyWriteFails ==
    /\ ap_pc = "loop" /\ ap_i <= Len(ap_matches)
    /\ ap_matches[ap_i][2] \in selected
    /\ LET project_file == ap_matches[ap_i][2]
           backup == backup_file(ap_disk[project_file])
       IN  /\ write_log' = Append(write_log, [file |-> project_file,
                                              before |-> ap_disk[project_file], written |-> FALSE])
           /\ \E after \in {ap_disk[project_file], File(TRUE, TRUE, <<>>)} :
                 ap_disk' = [ap_disk EXCEPT ![project_file] = after]
           /\ op_files' = record_write(op_files, project_file, backup, FALSE)
           /\ errors' = Append(errors, project_file)
    /\ error' = error + 1
    /\ ap_i' = ap_i + 1
    /\ UNCHANGED <<ap_matches, ap_templates, ap_checked, selected, success,
                   template_history, ap_pc,
                   mvars, tvars, cvars, pvars, evars, nvars, gvars, dvars, lvars, svars, uvars>>

\* lines 1352-1362
ApplyFinish ==
    /\ ap_pc = "loop" /\ ap_i > Len(ap_matches)
    /\ template_history' = IF DOMAIN op_files # {}
                           THEN Append(template_history, Operation(op_files))
                           ELSE template_history
    /\ ap_pc' = "done"
    /\ UNCHANGED <<ap_matches, ap_templates, ap_checked, ap_disk, write_log, selected,
                   op_files, success, error, errors, ap_i,
                   mvars, tvars, cvars, pvars, evars, nvars, gvars, dvars, lvars, svars, uvars>>

ApplyNext == ApplyStart \/ ApplySkip \/ ApplyWriteOk \/ ApplyWriteFails \/ ApplyFinish

InitApply == ApplyInit /\ MatchIdle /\ TreeIdle /\ ClassifyIdle /\ ParseIdle /\ ExtractIdle /\ NormalizeIdle /\ MergeIdle /\ DialogIdle /\ LevelIdle /\ ScanIdle /\ SessionIdle
SpecApply == InitApply /\ [][ApplyNext]_vars

\* apply_templates has returned
Applied == ap_pc = "done"

(***************************************************************************)
(* ScaffolderApp._calculate_level_fixed on one line of the text            *)
(***************************************************************************)
\* the widest indentation, in blanks
MaxIndent == 8

Blanks(n) == [i \in 1..n |-> " "]
\* indentations: blanks, and a tab alone or before a blank
Indentations == {Blanks(n) : n \in 0..MaxIndent} \cup {<<"\t">>, <<"\t", " ">>}
\* a name, a name with a blank inside, and a name after a branch connector
LevelNames == {<<"b">>, <<"b", " ", "c">>, Branch(BoxTee) \o <<"b">>}
\* what follows the name: nothing, a blank, an annotation
LevelTails == {<<>>, <<" ">>, Note(<<"c">>)}

LevelInit ==
    /\ \E ind \in Indentations, nm \in LevelNames, tl \in LevelTails :
          lv_raw = ind \o nm \o tl
    /\ lv_line = <<>>
    /\ lv_spaces = 0
    /\ lv_level = 0
    /\ lv_pc = "cut"

\* lines 1058-1060
CutComment ==
    /\ lv_pc = "cut"
    /\ lv_line' = IF Contains(lv_raw, <<"#">>)
                  THEN SubSeq(lv_raw, 1, FirstIndex(lv_raw, "#") - 1) ELSE lv_raw
    /\ lv_pc' = "count"
    /\ UNCHANGED <<lv_raw, lv_spaces, lv_level,
                   mvars, tvars, cvars, pvars, evars, nvars, gvars, dvars, avars, svars, uvars>>

\* lines 1113-1115
CountSpaces ==
    /\ lv_pc = "count"
    /\ lv_spaces' = leading_spaces(RemoveChars(lv_line, EmojiChars))
    /\ lv_pc' = "level"
    /\ UNCHANGED <<lv_raw, lv_line, lv_level,
                   mvars, tvars, cvars, pvars, evars, nvars, gvars, dvars, avars, svars, uvars>>

\* lines 1116-1134
ComputeLevel ==
    /\ lv_pc = "level"
    /\ lv_level' = calculate_level_fixed(lv_line)
    /\ lv_pc' = "done"
    /\ UNCHANGED <<lv_raw, lv_line, lv_spaces,
                   mvars, tvars, cvars, pvars, evars, nvars, gvars, dvars, avars, svars, uvars>>

LevelNext == CutComment \/ CountSpaces \/ ComputeLevel

InitLevel == LevelInit /\ MatchIdle /\ TreeIdle /\ ClassifyIdle /\ ParseIdle /\ ExtractIdle /\ NormalizeIdle /\ MergeIdle /\ DialogIdle /\ ApplyIdle /\ ScanIdle /\ SessionIdle
SpecLevel == InitLevel /\ [][LevelNext]_vars

(***************************************************************************)
(* ScaffolderApp.scan_directory with _generate_tree, and the way of its    *)
(* text into parse_structure: copy_scan_to_structure, preview_structure    *)
(***************************************************************************)
\* a directory tree is the set of its entries [path, is_dir]; path is the
\* sequence of names from the scanned directory down to the entry
DirEntry(path, is_dir) == [path |-> path, is_dir |-> is_dir]

\* max_depth of _generate_tree
MaxDepth == 10
\* MetadataManager.META_FILE
META_FILE ==
    <<".", "s", "c", "a", "f", "f", "o", "l", "d", "_", "m", "e", "t", "a", ".", "j", "s", "o", "n">>
\* the set ignore of line 963
IgnoredNames ==
    { <<".", "g", "i", "t">>,
      <<"_", "_", "p", "y", "c", "a", "c", "h", "e", "_", "_">>,
      <<"n", "o", "d", "e", "_", "m", "o", "d", "u", "l", "e", "s">>,
      <<".", "v", "e", "n", "v">>,
      META_FILE }
\* the hidden names that are listed all the same
ShownHiddenNames ==
    { <<".", "g", "i", "t", "i", "g", "n", "o", "r", "e">>, <<".", "e", "n", "v">> }

\* the condition of the list comprehension of lines 972-973
listed(name) ==
    /\ name \notin IgnoredNames
    /\ ~(StartsWith(name, <<".">>) /\ name \notin ShownHiddenNames)

\* root_path.iterdir()
iterdir(tree, dir) ==
    {e \in tree : Len(e.path) = Len(dir) + 1 /\ SubSeq(e.path, 1, Len(dir)) = dir}

\* the order of str on texts of '.', and lower-case letters: by code point
char_code(c) ==
    IF c = "." THEN 0 ELSE CHOOSE i \in DOMAIN LowerCase : LowerCase[i] = c
RECURSIVE str_less(_, _)
str_less(a, b) ==
    IF b = <<>> THEN FALSE
    ELSE IF a = <<>> THEN TRUE
    ELSE IF Head(a) # Head(b) THEN char_code(Head(a)) < char_code(Head(b))
    ELSE str_less(Tail(a), Tail(b))

\* the sort key (not x.is_dir(), x.name.lower()) of line 971
sorts_before(x, y) ==
    \/ x.is_dir /\ ~y.is_dir
    \/ x.is_dir = y.is_dir /\ str_less(Lower(Last(x.path)), Lower(Last(y.path)))

\* sorted(..., key=...) on entries of distinct keys
RECURSIVE sorted_items(_)
sorted_items(S) ==
    IF S = {} THEN <<>>
    ELSE LET x == CHOOSE x \in S : \A y \in S \ {x} : sorts_before(x, y)
         IN  <<x>> \o sorted_items(S \ {x})

\* the four blanks under a last child
Gap == <<" ", " ", " ", " ">>

\* _generate_tree (lines 959-995) without the PermissionError branch; the text
\* is one str with its newlines. generate_items is the loop of line 975 from
\* the i-th listed item on. is_last is passed on by the code and never read.
RECURSIVE generate_tree(_, _, _, _, _, _, _)
RECURSIVE generate_items(_, _, _, _, _, _, _)
generate_items(tree, meta, filtered, i, prefix, current_depth, parent_rel) ==
    IF i > Len(filtered) THEN <<>>
    ELSE
    LET item == filtered[i]
        name == Last(item.path)
        is_last_item == i = Len(filtered)
        rel_path == IF parent_rel # <<>> THEN parent_rel \o <<"/">> \o name ELSE name
        comment == IF rel_path \in DOMAIN meta
                   THEN <<" ", " ", "#", " ">> \o meta[rel_path] ELSE <<>>
        lead == IF current_depth = 0 THEN <<>> ELSE prefix
        connector == lead \o Branch(IF is_last_item THEN BoxEll ELSE BoxTee)
        new_prefix == lead \o (IF is_last_item THEN Gap ELSE Trunk)
    IN  (IF item.is_dir
         THEN connector \o name \o <<"/">> \o comment \o <<"\n">>
                \o generate_tree(tree, meta, name, item.path, new_prefix,
                                 current_depth + 1, rel_path)
         ELSE connector \o name \o comment \o <<"\n">>)
          \o generate_items(tree, meta, filtered, i + 1, prefix, current_depth, parent_rel)

generate_tree(tree, meta, root_name, dir, prefix, current_depth, parent_rel) ==
    IF current_depth > MaxDepth THEN <<>>
    ELSE
    LET head == IF current_depth = 0 THEN root_name \o <<"/", "\n">> ELSE <<>>
        filtered == sorted_items({e \in iterdir(tree, dir) : listed(Last(e.path))})
    IN  head \o generate_items(tree, meta, filtered, 1, prefix, current_depth, parent_rel)

\* what str.strip() removes from a text of several lines
TextWhitespace == Whitespace \cup {"\n"}

\* ---- inputs ----
\* the largest number of entries of the scanned directory
MaxEntries == 3

\* the name of the scanned directory, and the names of its entries
ScanRootName == <<"r">>
ScanDirNames == { <<"d">>, <<"e">> }
ScanFileNames == { <<"a", ".", "p">>, <<"b", ".", "p">> }

\* tree t with one more entry, in the scanned directory or in a directory of t
Grow(t) ==
    LET parents == {<<>>} \cup {e.path : e \in {x \in t : x.is_dir}}
    IN  {t \cup {DirEntry(Append(p, n), TRUE)} : p \in parents, n \in ScanDirNames}
          \cup {t \cup {DirEntry(Append(p, n), FALSE)} : p \in parents, n \in ScanFileNames}

\* the trees of at most n entries
RECURSIVE TreesUpTo(_)
TreesUpTo(n) ==
    IF n = 0 THEN {{}}
    ELSE LET s == TreesUpTo(n - 1) IN s \cup UNION {Grow(t) : t \in s}

\* the metadata of a tree: no comment, or the comment "c" for one entry
MetadataOf(t) ==
    {<<>>} \cup {[p \in {Join(e.path, "/")} |-> <<"c">>] : e \in t}

ScanInit ==
    /\ scan_tree \in TreesUpTo(MaxEntries)
    /\ scan_meta \in MetadataOf(scan_tree)
    /\ scan_result_text = <<>>
    /\ structure_text = <<>>
    /\ text = <<>> /\ root_dir = None /\ files = <<>> /\ dirs = {}
    /\ comments = <<>> /\ level_to_path = <<>> /\ tpc = -1

\* scan_directory (lines 935-957) on a directory that exists
ScanDirectory ==
    /\ scan_result_text = <<>>
    /\ scan_result_text' = generate_tree(scan_tree, scan_meta, ScanRootName, <<>>, <<>>, 0, <<>>)
    /\ UNCHANGED <<scan_tree, scan_meta, structure_text, mvars, tvars, cvars, pvars, evars, nvars, gvars, dvars, avars, lvars, uvars>>

\* copy_scan_to_structure (lines 771-785) into an empty structure tab
CopyScanToStructure ==
    /\ structure_text = <<>>
    /\ LET scan_content == StripChars(scan_result_text \o <<"\n">>, TextWhitespace)
       IN  /\ scan_content # <<>>
           /\ structure_text' = scan_content
    /\ UNCHANGED <<scan_tree, scan_meta, scan_result_text, mvars, tvars, cvars, pvars, evars, nvars, gvars, dvars, avars, lvars, uvars>>

\* preview_structure, lines 1000-1001: the widget's text, which ends with a
\* newline, is handed to parse_structure, which splits it (line 1041)
PreviewStructure ==
    /\ tpc = -1
    /\ structure_text # <<>>
    /\ text' = Split(structure_text \o <<"\n">>, "\n")
    /\ tpc' = 0
    /\ UNCHANGED <<root_dir, files, dirs, comments, level_to_path, svars, mvars, cvars, pvars, evars, nvars, gvars, dvars, avars, lvars, uvars>>

ScanNext == ScanDirectory \/ CopyScanToStructure \/ PreviewStructure \/ ParseRoot \/ ParseLine

InitScan == ScanInit /\ MatchIdle /\ ClassifyIdle /\ ParseIdle /\ ExtractIdle /\ NormalizeIdle /\ MergeIdle /\ DialogIdle /\ ApplyIdle /\ LevelIdle /\ SessionIdle
SpecScan == InitScan /\ [][ScanNext]_vars

(***************************************************************************)
(* ScaffolderApp as a session: create_project, apply_templates and         *)
(* undo_last_operation on one project directory, with the user's own       *)
(* edits of its files in between. Every write, unlink and rmdir succeeds.  *)
(***************************************************************************)
\* the largest number of create_project and apply_templates calls
MaxOps == 2

\* the paths under project_root, as sequences of names
SessionDirs == { <<"d">>, <<"d", "e">> }
SessionFiles == { <<"d", "a.p">>, <<"b.p">> }
\* the directories above a path
above(path) == {SubSeq(path, 1, k) : k \in 1..(Len(path) - 1)}
\* the entries of a directory that exist
entries_of(dp, fs, ds) ==
    {f \in DOMAIN fs : fs[f].exists /\ Len(f) = Len(dp) + 1 /\ SubSeq(f, 1, Len(dp)) = dp}
      \cup {d \in ds : Len(d) = Len(dp) + 1 /\ SubSeq(d, 1, Len(dp)) = dp}

\* the files at the start of a session: missing, of length zero, or with a
\* line of text
SessionFileStates == {AbsentFile, File(TRUE, TRUE, <<>>), File(TRUE, TRUE, <<"y", "\n">>)}
\* the files before a series of fills: also a line that ends with CR LF, and
\* bytes that are not UTF-8
FillFileStates ==
    SessionFileStates \cup {File(TRUE, TRUE, <<"y", "\r", "\n">>), UndecodableFile}
\* the code of the templates, and what the user's editor writes
TemplateCode == <<"t", "\n">>
EditedBytes == <<"x", "\n">>
\* the files the user works on
EditedFiles == { <<"d", "a.p">> }

\* results of parse_structure on the structure tab: (dirs, files, comments),
\* the directories sorted and with every ancestor in them
Structure(ds, fs, cs) == [dirs |-> ds, files |-> fs, comments |-> cs]
Structures ==
    { Structure(<< <<"d">> >>, << <<"d", "a.p">> >>, <<>>),
      Structure(<<>>, << <<"b.p">> >>, [k \in {<<"b.p">>} |-> <<"c">>]),
      Structure(<< <<"d">>, <<"d", "e">> >>, <<>>, <<>>) }
\* the selected project files of a fill dialog, in the order of matches
Fills == { <<>>, << <<"d", "a.p">> >>, << <<"d", "a.p">>, <<"b.p">> >> }

\* MetadataManager.merge_metadata
RECURSIVE merge_metadata(_, _)
merge_metadata(existing, new_data) ==
    IF DOMAIN new_data = {} THEN existing
    ELSE LET k == CHOOSE k \in DOMAIN new_data : TRUE
         IN  merge_metadata(merge_item(existing, k, new_data[k]), DictDrop(new_data, {k}))

\* lines 1162-1169: the loop over dirs; made lists the directories created
RECURSIVE make_dirs(_, _, _)
make_dirs(ds, existing, made) ==
    IF ds = <<>> THEN [existing |-> existing, made |-> made]
    ELSE IF Head(ds) \in existing THEN make_dirs(Tail(ds), existing, made)
    ELSE make_dirs(Tail(ds), existing \cup {Head(ds)} \cup above(Head(ds)),
                   Append(made, Head(ds)))

\* lines 1150-1189: created_items
CreatedItems(timestamp, ds, fs, old_metadata) ==
    [timestamp |-> timestamp, dirs |-> ds, files |-> fs, old_metadata |-> old_metadata]
\* line 1334 and 1347: operation
operation_at(timestamp, recorded) == [timestamp |-> timestamp, files |-> recorded]

\* lines 1381-1387: one file of undo_template_fill
restore_file(file, backup, os) ==
    IF backup = None THEN (IF file.exists THEN AbsentFile ELSE file)
    ELSE File(TRUE, TRUE, write_text(backup[1], os))

\* lines 1396-1397 with the other history forgotten
button_after_undo_own_history(own, other, btn) ==
    IF own = <<>> THEN "disabled" ELSE btn

\* lines 1396-1397 and 1437-1438: the button after the pop
button_after_undo(own, other, btn) ==
    IF own = <<>> /\ other = <<>> THEN "disabled" ELSE btn

\* lines 1418-1420 without the test of the size
unlink_created_any_size(file) == IF file.exists THEN AbsentFile ELSE file

\* lines 1418-1420: one file of undo_file_creation
unlink_created(file) ==
    IF file.exists /\ file.content = <<>> THEN AbsentFile ELSE file

\* x.count('/') of str(dp): the project root's own separators and one per name
\* on posix, none on nt, where str() writes backslashes
slash_count(dp, os) == IF os = "nt" THEN 0 ELSE Len(dp)

\* sorted(last['dirs'], key=lambda x: x.count('/'), reverse=True): by falling
\* count, equal counts in the order of the list
RECURSIVE sorted_by_slashes(_, _)
sorted_by_slashes(ds, os) ==
    IF ds = <<>> THEN <<>>
    ELSE LET i == MinOf({k \in 1..Len(ds) :
                          \A j \in 1..Len(ds) : slash_count(ds[k], os) >= slash_count(ds[j], os)})
         IN  <<ds[i]>> \o sorted_by_slashes(SubSeq(ds, 1, i - 1) \o SubSeq(ds, i + 1, Len(ds)), os)

\* lines 1425-1432: the directories left by the loop over the sorted list
RECURSIVE remove_dirs(_, _, _)
remove_dirs(ds, fs, existing) ==
    IF ds = <<>> THEN existing
    ELSE IF Head(ds) \in existing /\ entries_of(Head(ds), fs, existing) = {}
         THEN remove_dirs(Tail(ds), fs, existing \ {Head(ds)})
         ELSE remove_dirs(Tail(ds), fs, existing)

\* the variables of apply_templates that belong to one call
apply_locals ==
    <<ap_matches, ap_templates, ap_checked, ap_disk, write_log, selected, op_files,
      success, error, errors, ap_i, ap_pc>>

\* the project directory is in order: what exists lies in directories that exist
DiskInit(states) ==
    /\ disk_files \in [SessionFiles -> states]
    /\ disk_dirs \in SUBSET SessionDirs
    /\ \A d \in disk_dirs : above(d) \subseteq disk_dirs
    /\ \A f \in SessionFiles : disk_files[f].exists => above(f) \subseteq disk_dirs
    /\ disk_before = disk_files

SessionInit ==
    /\ os_name \in {"posix", "nt"}
    /\ DiskInit(SessionFileStates)
    /\ metadata \in {<<>>, [k \in {<<"b.p">>} |-> <<"o">>]}
    /\ operation_history = <<>>
    /\ undo_btn = "disabled"
    /\ clock = 0
    /\ message = "none"

\* the start of a series of fills: no metadata, files of every kind
FillInit ==
    /\ os_name \in {"posix", "nt"}
    /\ DiskInit(FillFileStates)
    /\ metadata = <<>>
    /\ operation_history = <<>>
    /\ undo_btn = "disabled"
    /\ clock = 0
    /\ message = "none"

\* create_project (lines 1147-1198) on a project root that exists
CreateProject ==
    /\ clock < MaxOps
    /\ \E s \in Structures :
          LET dl == make_dirs(s.dirs, disk_dirs, <<>>)
              made_files == SelectSeq(s.files, LAMBDA f : ~disk_files[f].exists)
              old_meta == metadata
              created_items ==
                  CreatedItems(clock + 1, dl.made, made_files,
                               IF s.comments # <<>> THEN Some(old_meta) ELSE None)
              recorded == dl.made # <<>> \/ made_files # <<>>
          IN  /\ disk_dirs' = dl.existing
              /\ disk_files' = [f \in DOMAIN disk_files |->
                                   IF f \in Range(made_files) THEN File(TRUE, TRUE, <<>>)
                                   ELSE disk_files[f]]
              /\ metadata' = IF s.comments # <<>> THEN merge_metadata(old_meta, s.comments)
                             ELSE metadata
              /\ operation_history' = IF recorded THEN Append(operation_history, created_items)
                                      ELSE operation_history
              /\ undo_btn' = IF recorded THEN "normal" ELSE undo_btn
              /\ message' = "Project created"
    /\ clock' = clock + 1
    /\ UNCHANGED <<os_name, disk_before, template_history, apply_locals,
                   mvars, tvars, cvars, pvars, evars, nvars, gvars, dvars, lvars, svars>>

\* apply_templates (lines 1325-1362) with every write_file returning True
ApplyTemplates ==
    /\ clock < MaxOps
    /\ \E sel \in Fills :
          IF sel = <<>>
          THEN /\ message' = "No files selected"
               /\ UNCHANGED <<disk_files, disk_dirs, template_history, undo_btn, clock>>
          ELSE LET recorded == [f \in Range(sel) |-> backup_file(disk_files[f])]
               IN  /\ disk_files' = [f \in DOMAIN disk_files |->
                                        IF f \in Range(sel)
                                        THEN File(TRUE, TRUE, write_text(TemplateCode, os_name))
                                        ELSE disk_files[f]]
                   /\ disk_dirs' = disk_dirs \cup UNION {above(f) : f \in Range(sel)}
                   /\ template_history' = Append(template_history,
                                                 operation_at(clock + 1, recorded))
                   /\ undo_btn' = "normal"
                   /\ message' = "Templates applied"
                   /\ clock' = clock + 1
    /\ UNCHANGED <<os_name, disk_before, metadata, operation_history, apply_locals,
                   mvars, tvars, cvars, pvars, evars, nvars, gvars, dvars, lvars, svars>>

\* undo_last_operation, lines 1365-1370: nothing to undo
UndoNothing ==
    /\ template_history = <<>> /\ operation_history = <<>>
    /\ message' = "Nothing to undo"
    /\ UNCHANGED <<os_name, disk_files, disk_dirs, disk_before, metadata, operation_history,
                   undo_btn, clock, avars,
                   mvars, tvars, cvars, pvars, evars, nvars, gvars, dvars, lvars, svars>>

\* undo_template_fill or undo_file_creation, the question answered with no
\* (lines 1374-1376, 1408-1410)
UndoDeclined ==
    /\ ~(template_history = <<>> /\ operation_history = <<>>)
    /\ message' = "Undo declined"
    /\ UNCHANGED <<os_name, disk_files, disk_dirs, disk_before, metadata, operation_history,
                   undo_btn, clock, avars,
                   mvars, tvars, cvars, pvars, evars, nvars, gvars, dvars, lvars, svars>>

\* undo_last_operation with a template fill in the history (lines 1365-1366),
\* undo_template_fill confirmed (lines 1373-1402)
UndoTemplateFill ==
    /\ template_history # <<>>
    /\ LET last == Last(template_history)
           popped == SubSeq(template_history, 1, Len(template_history) - 1)
           paths == DOMAIN last.files
       IN  /\ disk_files' = [f \in DOMAIN disk_files |->
                                IF f \in paths
                                THEN restore_file(disk_files[f], last.files[f], os_name)
                                ELSE disk_files[f]]
           /\ template_history' = popped
           /\ undo_btn' = button_after_undo(popped, operation_history, undo_btn)
           /\ message' = "Files restored"
    /\ UNCHANGED <<os_name, disk_dirs, disk_before, metadata, operation_history, clock,
                   apply_locals,
                   mvars, tvars, cvars, pvars, evars, nvars, gvars, dvars, lvars, svars>>

\* undo_last_operation with no template fill in the history (lines 1367-1368),
\* undo_file_creation confirmed (lines 1407-1443)
UndoFileCreation ==
    /\ template_history = <<>>
    /\ operation_history # <<>>
    /\ LET last == Last(operation_history)
           popped == SubSeq(operation_history, 1, Len(operation_history) - 1)
           fs == [f \in DOMAIN disk_files |->
                     IF f \in Range(last.files) THEN unlink_created(disk_files[f])
                     ELSE disk_files[f]]
           ds == remove_dirs(sorted_by_slashes(last.dirs, os_name), fs, disk_dirs)
       IN  /\ disk_files' = fs
           /\ disk_dirs' = ds
           /\ metadata' = IF last.old_metadata # None /\ last.old_metadata[1] # <<>>
                          THEN last.old_metadata[1] ELSE metadata
           /\ operation_history' = popped
           /\ undo_btn' = button_after_undo(popped, template_history, undo_btn)
           /\ message' = "Creation undone"
    /\ UNCHANGED <<os_name, disk_before, clock, avars,
                   mvars, tvars, cvars, pvars, evars, nvars, gvars, dvars, lvars, svars>>

\* the user saves a file of the project in an editor
EditFile ==
    /\ \E f \in EditedFiles :
          /\ above(f) \subseteq disk_dirs
          /\ disk_files[f] # File(TRUE, TRUE, EditedBytes)
          /\ disk_files' = [disk_files EXCEPT ![f] = File(TRUE, TRUE, EditedBytes)]
    /\ UNCHANGED <<os_name, disk_dirs, disk_before, metadata, operation_history, undo_btn,
                   clock, message, avars,
                   mvars, tvars, cvars, pvars, evars, nvars, gvars, dvars, lvars, svars>>

SessionNext ==
    \/ CreateProject \/ ApplyTemplates
    \/ UndoNothing \/ UndoDeclined \/ UndoTemplateFill \/ UndoFileCreation
    \/ EditFile

InitSession == SessionInit /\ MatchIdle /\ TreeIdle /\ ClassifyIdle /\ ParseIdle /\ ExtractIdle /\ NormalizeIdle /\ MergeIdle /\ DialogIdle /\ ApplyIdle /\ LevelIdle /\ ScanIdle
SpecSession == InitSession /\ [][SessionNext]_vars

\* the template fills and their undo alone
FillNext == ApplyTemplates \/ UndoNothing \/ UndoDeclined \/ UndoTemplateFill

InitFill == FillInit /\ MatchIdle /\ TreeIdle /\ ClassifyIdle /\ ParseIdle /\ ExtractIdle /\ NormalizeIdle /\ MergeIdle /\ DialogIdle /\ ApplyIdle /\ LevelIdle /\ ScanIdle
SpecFill == InitFill /\ [][FillNext]_vars

(***************************************************************************)
(* Claims about match_files                                                *)
(***************************************************************************)
Paired(t, p) == \E k \in DOMAIN matches : matches[k] = <<t, p>>
ProjectNorms == {normalize_path(p) : p \in Range(project_files)}
Orderings(q) == {r \in DistinctSeqs(Range(q), Len(q)) : Len(r) = Len(q)}

\* C1: the list of pairs is one-to-one: no template path occurs in two pairs
\* and no project path occurs in two pairs, for every input (colliding
\* normal forms included), after every strategy.
C1_OneToOne ==
    \A i, j \in DOMAIN matches :
        i # j => matches[i][1] # matches[j][1] /\ matches[i][2] # matches[j][2]

\* C1 witness: a finished run with two pairs on an input with two template
\* paths of the same normal form.
C1_Witness ==
    /\ mpc = "done"
    /\ Len(matches) = 2
    /\ \E i, j \in DOMAIN template_paths :
          i # j /\ normalize_path(template_paths[i]) = normalize_path(template_paths[j])

KeptTemplate(n) ==
    template_paths[MaxOf({i \in DOMAIN template_paths : normalize_path(template_paths[i]) = n})]

C3_OrderIndependent ==
    mpc = "done" =>
        \A tps \in Orderings(template_paths), pfs \in Orderings(project_files) :
            Range(match_files(tps, pfs)) = Range(matches)

(***************************************************************************)
(* Claims about parse_structure                                            *)
(***************************************************************************)
\* how a line of a drawn tree reads: its annotation, its body, its entry
BareName(n) ==
    /\ n # <<>>
    /\ \A i \in 1..Len(n) : n[i] \notin ({"/", "\\", "#"} \cup Whitespace \cup GlyphChars)
HasNote(line) == Contains(line, <<"#">>)
NoteOf(line) ==
    IF HasNote(line) THEN Strip(SubSeq(line, FirstIndex(line, "#") + 1, Len(line))) ELSE <<>>
BodyOf(line) ==
    RStripChars(IF HasNote(line) THEN SubSeq(line, 1, FirstIndex(line, "#") - 1) ELSE line,
                Whitespace)
IsDirToken(tok) == tok # <<>> /\ Last(tok) = "/"
TokenName(tok) == IF IsDirToken(tok) THEN SubSeq(tok, 1, Len(tok) - 1) ELSE tok
EntryToken(tok) == BareName(TokenName(tok))
IsBranch(pre) == pre \in {Branch(BoxTee), Branch(BoxEll)}

\* 'R/'
RootLine(line) == IsDirToken(line) /\ BareName(TokenName(line))
\* '<branch>── token' and '│   <branch>── token', either with an optional annotation
TopEntry(line) ==
    LET b == BodyOf(line)
    IN  Len(b) > 4 /\ IsBranch(SubSeq(b, 1, 4)) /\ EntryToken(SubSeq(b, 5, Len(b)))
ChildEntry(line) ==
    LET b == BodyOf(line)
    IN  /\ Len(b) > 8 /\ SubSeq(b, 1, 4) = Trunk /\ IsBranch(SubSeq(b, 5, 8))
        /\ EntryToken(SubSeq(b, 9, Len(b)))
TokenOf(line) ==
    LET b == BodyOf(line)
    IN  IF SubSeq(b, 1, 4) = Trunk THEN SubSeq(b, 9, Len(b)) ELSE SubSeq(b, 5, Len(b))
NameOf(line) == TokenName(TokenOf(line))

\* a root line followed by lines '<branch>── name' with names classified File
FlatTree ==
    /\ RootLine(text[1])
    /\ \A i \in 2..Len(text) :
          /\ TopEntry(text[i]) /\ ~HasNote(text[i])
          /\ ~IsDirToken(TokenOf(text[i])) /\ is_file(NameOf(text[i]))
FlatNames == {NameOf(text[i]) : i \in 2..Len(text)}

\* C4 as stated: for a root line 'R/' followed by lines '<branch>── name' with
\* names classified File, the files are exactly the names, there is no
\* directory and no comment.
C4_FlatTreeAnyNames ==
    (Parsed /\ FlatTree) =>
        /\ Range(files) = FlatNames
        /\ dirs = {}
        /\ DOMAIN comments = {}

\* C4 amended: the same for names other than the root's own name R (an entry
\* whose path equals the root name is skipped as the root itself).
C4_FlatTree ==
    (Parsed /\ FlatTree /\ TokenName(text[1]) \notin FlatNames) =>
        /\ Range(files) = FlatNames
        /\ dirs = {}
        /\ DOMAIN comments = {}

\* C4 witness: a parsed flat tree with two different file names, drawn with
\* both branch glyphs.
C4_Witness ==
    /\ Parsed /\ FlatTree /\ TokenName(text[1]) \notin FlatNames
    /\ Cardinality(FlatNames) = 2
    /\ Range(files) = FlatNames

\* a root line, a directory line '<branch>── d/', then directory lines of the
\* same kind and child lines '│   <branch>── name'
NestedTree ==
    /\ Len(text) >= 3
    /\ RootLine(text[1])
    /\ TopEntry(text[2])
    /\ \A i \in 2..Len(text) :
          \/ TopEntry(text[i]) /\ IsDirToken(TokenOf(text[i]))
          \/ ChildEntry(text[i])
    /\ \E i \in 3..Len(text) : ChildEntry(text[i])
\* the directory line a child line stands under, and the path the claim gives a line
OwnerOf(i) == MaxOf({j \in 2..(i - 1) : TopEntry(text[j])})
PathOf(i) ==
    IF TopEntry(text[i]) THEN NameOf(text[i])
    ELSE NameOf(text[OwnerOf(i)]) \o <<"/">> \o NameOf(text[i])
IsFileLine(i) == ~IsDirToken(TokenOf(text[i])) /\ is_file(NameOf(text[i]))
Noted(i) == NoteOf(text[i]) # <<>>
NestedResult ==
    /\ Range(files) = {PathOf(i) : i \in {k \in 2..Len(text) : IsFileLine(k)}}
    /\ dirs = {PathOf(i) : i \in {k \in 2..Len(text) : ~IsFileLine(k)}}
    /\ DOMAIN comments = {PathOf(i) : i \in {k \in 2..Len(text) : Noted(k)}}
    /\ \A i \in 2..Len(text) :
          Noted(i) =>
              comments[PathOf(i)] =
                  NoteOf(text[MaxOf({k \in 2..Len(text) : Noted(k) /\ PathOf(k) = PathOf(i)})])

\* C5 as stated: in such a tree each child has the path 'd/child', every
\* directory line is in the directory set, and an annotation is in the comment
\* map under its line's root-relative path, trimmed.
C5_NestedTreeAnyNames == (Parsed /\ NestedTree) => NestedResult

\* C5 amended: the same when no directory line bears the root's own name (a
\* line that cleans to 'R/' is taken as a repeated root line: it is dropped and
\* the level map is cleared).  Of two annotations of one path the later stays.
RootNamedAgain ==
    \E i \in 2..Len(text) : IsDirToken(TokenOf(text[i])) /\ NameOf(text[i]) = TokenName(text[1])
C5_NestedTree == (Parsed /\ NestedTree /\ ~RootNamedAgain) => NestedResult

\* C5 witness: a parsed tree with a directory, an annotated file under it, and
\* the comment recorded under 'd/child'.
C5_Witness ==
    /\ Parsed /\ NestedTree /\ ~RootNamedAgain
    /\ ChildEntry(text[3]) /\ Noted(3) /\ IsFileLine(3)
    /\ PathOf(3) \in Range(files)
    /\ PathOf(3) \in DOMAIN comments

\* the proper ancestors of a path: what precedes each separator
ProperAncestors(path) ==
    {SubSeq(path, 1, i - 1) : i \in {k \in 2..Len(path) : path[k] = "/" /\ path[k - 1] # "/"}}

\* C6: every proper ancestor of every file path of the result is in the
\* directory set (in the result and after every line).
C6_AncestorsAreDirs ==
    \A f \in Range(files) : ProperAncestors(f) \subseteq dirs

\* C6 witness: a result with a file whose parent was never given as a line of
\* its own (the plain path s/a.p) beside a file placed under a directory line.
C6_Witness ==
    /\ Parsed
    /\ \E f, g \in Range(files) :
          /\ ProperAncestors(f) = {<<"s">>}
          /\ g # f
          /\ ProperAncestors(g) # {}

(***************************************************************************)
(* Claims about IntelligentTemplateParser                                  *)
(***************************************************************************)
\* the candidate header lines of the blob: the lines _analyze_line_as_header accepts
Candidates == candidate_headers(content_lines, 1)
\* the declared paths of candidates c, after separator normalization
DeclaredNorms(c) == {normalized(c[i].filepath) : i \in 1..Len(c)}
\* the candidates and the returned headers whose path has normal form n
CandidatesOf(c, n) == {i \in 1..Len(c) : normalized(c[i].filepath) = n}
SurvivorsOf(n) == {j \in 1..Len(file_headers) : normalized(file_headers[j].filepath) = n}

\* C8: among the candidate header lines whose declared paths are equal after
\* separator normalization, _scan_file_headers returns exactly one, one of
\* highest confidence among them, and the returned list is in strictly
\* increasing line-number order.
C8_OneSurvivorPerPath ==
    Scanned =>
        LET c == Candidates
        IN  /\ \A n \in DeclaredNorms(c) :
                  /\ Cardinality(SurvivorsOf(n)) = 1
                  /\ \A j \in SurvivorsOf(n) :
                        /\ \E i \in CandidatesOf(c, n) : c[i] = file_headers[j]
                        /\ \A i \in CandidatesOf(c, n) :
                              c[i].confidence <= file_headers[j].confidence
            /\ \A j \in 1..(Len(file_headers) - 1) :
                  file_headers[j].line < file_headers[j + 1].line

\* C8 witness: a later candidate of higher confidence has taken the place of an
\* earlier one of the same path, with the header of another path in between
C8_Witness ==
    /\ Scanned
    /\ LET c == Candidates
       IN  \E n \in DeclaredNorms(c) : \E i, k \in CandidatesOf(c, n) :
              /\ c[i].line < c[k].line
              /\ c[i].confidence < c[k].confidence
              /\ \E j \in 1..Len(file_headers) :
                    /\ c[i].line < file_headers[j].line
                    /\ file_headers[j].line < c[k].line

\* the declared paths of candidates c, as written
DeclaredPaths(c) == {c[i].filepath : i \in 1..Len(c)}
\* the numbers of the lines that declare path p
DeclaringLines(c, p) == {c[i].line : i \in {k \in 1..Len(c) : c[k].filepath = p}}
\* the body that follows header line l: the lines up to the next returned
\* header, or to the end of the blob, as _extract_code leaves them
BodyAfter(l) ==
    LET later == {file_headers[j].line : j \in {k \in 1..Len(file_headers) : file_headers[k].line > l}}
        stop == IF later = {} THEN Len(content_lines) ELSE MinOf(later)
    IN  extract_code(SubSeq(content_lines, l + 2, stop))
HasBlock(p) == \E i \in 1..Len(templates) : templates[i].filepath = p
BlockFor(p) == templates[CHOOSE i \in 1..Len(templates) : templates[i].filepath = p].code

\* C9 as stated: when several header lines declare the same path, the block
\* parse returns for that path is the body that follows the last of them.
C9_LastOccurrenceWins ==
    Returned =>
        LET c == Candidates
        IN  \A p \in DeclaredPaths(c) :
                Cardinality(DeclaringLines(c, p)) >= 2 /\ HasBlock(p) =>
                    BlockFor(p) = BodyAfter(MaxOf(DeclaringLines(c, p)))

\* the candidate of normal form n that is kept: of highest confidence, the
\* earliest of these
Winner(c, n) ==
    c[CHOOSE i \in CandidatesOf(c, n) : \A k \in CandidatesOf(c, n) :
         \/ c[k].confidence < c[i].confidence
         \/ c[k].confidence = c[i].confidence /\ c[i].line <= c[k].line]

\* C9 amended: when several header lines declare paths that are equal after
\* separator normalization, parse returns a block for the path of the header
\* line of highest confidence among them (the earliest on a tie) and for no
\* other spelling; the block is the body from that line to the next returned
\* header or the end of the blob, and there is none when that body is blank.
C9_HighestConfidenceWins ==
    Returned =>
        LET c == Candidates
        IN  \A n \in DeclaredNorms(c) :
                Cardinality(CandidatesOf(c, n)) >= 2 =>
                    LET w == Winner(c, n)
                        body == BodyAfter(w.line)
                    IN  /\ \A i \in CandidatesOf(c, n) :
                              HasBlock(c[i].filepath) <=>
                                  (c[i].filepath = w.filepath /\ has_code(body))
                        /\ has_code(body) => BlockFor(w.filepath) = body

\* C9 witness: two header lines of one path and equal confidence; the block
\* returned starts after the first and holds the second as a line
C9_Witness ==
    /\ Returned
    /\ LET c == Candidates
       IN  \E n \in DeclaredNorms(c) : \E i, k \in CandidatesOf(c, n) :
              /\ c[i].line < c[k].line
              /\ c[i].confidence = c[k].confidence
              /\ Winner(c, n) = c[i]
              /\ HasBlock(c[i].filepath)
              /\ \E m \in 1..Len(BlockFor(c[i].filepath)) :
                    BlockFor(c[i].filepath)[m] = content_lines[c[k].line + 1]

\* a text with one of '.', '/', '\' or a special filename inside
PathLike(s) ==
    \/ \E i \in 1..Len(s) : s[i] \in {".", "/", "\\"}
    \/ \E f \in SPECIAL_FILES : Contains(s, f)
IsComment(line) == StartsWith(Strip(line), <<"#">>)

\* C10: no line whose stripped form does not begin with '#' is returned as a
\* header, and no '#' line whose content holds none of '.', '/', '\' and no
\* special filename is returned as a header by _scan_file_headers.
C10_OnlyPathLikeComments ==
    Scanned =>
        \A j \in 1..Len(file_headers) :
            LET line == content_lines[file_headers[j].line + 1]
            IN  IsComment(line) /\ PathLike(header_content(Strip(line)))

\* C10 witness: the blob holds a line of code and a comment of prose next to a
\* header that is returned
C10_Witness ==
    /\ Scanned
    /\ file_headers # <<>>
    /\ \E i \in 1..Len(content_lines) :
          Strip(content_lines[i]) # <<>> /\ ~IsComment(content_lines[i])
    /\ \E i \in 1..Len(content_lines) :
          IsComment(content_lines[i]) /\ ~PathLike(header_content(Strip(content_lines[i])))

(***************************************************************************)
(* ScaffolderApp._is_file as an operation of its own                       *)
(***************************************************************************)
MaxNameLen == 4

\* bare tokens: every string over '.', 'a', 'b' up to the bound, the names of
\* the allow-list and two names that differ from them in case or by a letter
NamePool ==
    UNION {[1..k -> {".", "a", "b"}] : k \in 0..MaxNameLen}
      \cup ExtensionlessFiles
      \cup { <<"r","e","a","d","m","e">>, <<"M","a","k","e","f","i","l","e","s">> }

ClassifyInit == token \in NamePool /\ kind = "unset"

Classify ==
    /\ kind = "unset"
    /\ kind' = IF is_file(token) THEN "File" ELSE "Directory"
    /\ UNCHANGED <<token, mvars, tvars, pvars, evars, nvars, gvars, dvars, avars, lvars, svars, uvars>>

ClassifyNext == Classify

InitClassify == ClassifyInit /\ MatchIdle /\ TreeIdle /\ ParseIdle /\ ExtractIdle /\ NormalizeIdle /\ MergeIdle /\ DialogIdle /\ ApplyIdle /\ LevelIdle /\ ScanIdle /\ SessionIdle
SpecClassify == InitClassify /\ [][ClassifyNext]_vars

\* the rule of the classifier as the claim words it
DotWithSuffix(n) ==
    \E i \in 2..Len(n) :
        /\ n[i] = "."
        /\ \A j \in (i + 1)..Len(n) : n[j] # "."
        /\ i < Len(n)
        \* a '.' not at position 0 whose suffix after the last '.' is non-empty
ClaimedFile(n) == DotWithSuffix(n) \/ n \in ExtensionlessFiles \/ StartsWith(n, <<".">>)

\* C7 as stated: for every bare token the classifier answers File exactly when
\* the token has a '.' not at position 0 and a non-empty suffix after its last
\* '.', or is in the allow-list, or starts with '.'; otherwise Directory (the
\* empty string is Directory).
C7_ClassifierRule ==
    kind # "unset" =>
        /\ kind \in {"File", "Directory"}
        /\ (kind = "File" <=> ClaimedFile(token))

(***************************************************************************)
(* Claims about _extract_code                                              *)
(***************************************************************************)
\* a decorative separator line: '#' followed only by a run of 10 or more '-'/'='
IsDecorative(line) == is_separator(Strip(line))
IsBlank(line) == Strip(line) = <<>>

\* the lines of span ls from position i on, without the decorative lines and
\* without the blank line that comes right after a decorative line
RECURSIVE Remaining(_, _)
Remaining(ls, i) ==
    IF i > Len(ls) THEN <<>>
    ELSE IF IsDecorative(ls[i]) THEN Remaining(ls, i + 1)
    ELSE IF IsBlank(ls[i]) /\ i > 1 /\ IsDecorative(ls[i - 1]) THEN Remaining(ls, i + 1)
    ELSE <<ls[i]>> \o Remaining(ls, i + 1)

\* a is b with some lines left out
RECURSIVE IsSubsequence(_, _)
IsSubsequence(a, b) ==
    IF a = <<>> THEN TRUE
    ELSE IF b = <<>> THEN FALSE
    ELSE IF Head(a) = Head(b) THEN IsSubsequence(Tail(a), Tail(b))
    ELSE IsSubsequence(a, Tail(b))

\* C11: in _extract_code every decorative separator line of the span is absent
\* from the body, a blank line right after a dropped separator is dropped, and
\* the body neither begins nor ends with a blank line.
C11_SeparatorsDropped ==
    Extracted =>
        LET body == ex_result[1]
        IN  /\ \A i \in 1..Len(body) : ~IsDecorative(body[i])
            /\ IsSubsequence(body, Remaining(ex_lines, 1))
            /\ body # <<>> => ~IsBlank(body[1]) /\ ~IsBlank(body[Len(body)])

\* C11 witness: a separator and a blank line after it stand between two lines of
\* code, and a body is returned
C11_Witness ==
    /\ Extracted
    /\ ex_result[1] # <<>>
    /\ \E i \in 2..(Len(ex_lines) - 2) :
          /\ ~IsBlank(ex_lines[i - 1]) /\ ~IsDecorative(ex_lines[i - 1])
          /\ IsDecorative(ex_lines[i])
          /\ IsBlank(ex_lines[i + 1])
          /\ ~IsBlank(ex_lines[i + 2]) /\ ~IsDecorative(ex_lines[i + 2])

(***************************************************************************)
(* Claims about normalize_path                                             *)
(***************************************************************************)
\* C12: path normalization is idempotent: normalizing twice yields the same
\* result as normalizing once, for every path string.
C12_NormalizeIdempotent == n_twice # None => n_twice = n_once

\* C12 witness: a path with a leading backslash and an upper-case letter, which
\* the first call changes, has been normalized twice
C12_Witness ==
    /\ n_twice # None
    /\ n_path # <<>> /\ n_path[1] = "\\"
    /\ \E i \in 1..Len(n_path) : n_path[i] = "B"
    /\ n_once[1] # n_path /\ n_once[1] # <<>>

(***************************************************************************)
(* Claims about merge_metadata                                             *)
(***************************************************************************)
\* the keys of new_data that carry a comment
Commented == {k \in DOMAIN md_new : md_new[k] # <<>>}

\* what the claim says of the map returned
MergedAsClaimed ==
    /\ \A k \in Commented : k \in DOMAIN md_result /\ md_result[k] = md_new[k]
    /\ \A k \in DOMAIN md_existing \ Commented :
          k \in DOMAIN md_result /\ md_result[k] = md_existing[k]
    /\ DOMAIN md_result \subseteq DOMAIN md_existing \cup Commented

\* C13: merge_metadata(existing, new) returns a map in which every key of new
\* with a non-empty comment has the new comment, every other key of existing
\* keeps its old value, no other key appears; and the existing map is never
\* modified.
C13_MergeKeepsAndOverwrites ==
    /\ [](Merged => MergedAsClaimed)
    /\ [][md_existing' = md_existing]_vars

\* C13 witness: new_data overwrites one key of existing with a comment, names
\* another key of existing with an empty comment, and the call has returned
C13_Witness ==
    /\ Merged
    /\ \E k \in DOMAIN md_existing \cap Commented : md_existing[k] # md_new[k]
    /\ \E k \in DOMAIN md_existing \cap DOMAIN md_new :
          md_new[k] = <<>> /\ md_existing[k] # <<>>

(***************************************************************************)
(* Claims about show_fill_dialog                                           *)
(***************************************************************************)
\* the status the claim gives a row: NewFile when the path is not on disk,
\* EmptyFile when the file has zero-length content, IdenticalContent when its
\* content equals the template body after trimming, Conflict for any other
\* existing content
ClaimedStatus(file, body) ==
    IF ~file.exists THEN StatusNew
    ELSE IF file.content = <<>> THEN StatusEmpty
    ELSE IF file.readable /\ StripText(file.content) = StripText(body) THEN StatusSame
    ELSE StatusDifferent

\* C14: every match shown gets exactly one status, the one of the rule above,
\* and only IdenticalContent rows are deselected by default.
C14_StatusPerMatch ==
    \A i \in 1..(dlg_i - 1) :
        LET project_file == dlg_matches[i][2]
            file == dlg_disk[project_file]
            body == dlg_templates[dlg_matches[i][1]]
        IN  /\ project_file \in DOMAIN status_text
            /\ status_text[project_file] = ClaimedStatus(file, body)
            /\ check_vars[project_file] = (status_text[project_file] # StatusSame)

(***************************************************************************)
(* Claims about apply_templates                                            *)
(***************************************************************************)
\* the matches whose project file is selected
SelectedMatches == {i \in 1..Len(ap_matches) : ap_checked[ap_matches[i][2]]}
\* the calls of write_file that returned True, and those that returned False
WritesOk == {k \in 1..Len(write_log) : write_log[k].written}
WritesFailed == {k \in 1..Len(write_log) : ~write_log[k].written}

\* C15: a failed write does not stop the batch: a write is attempted for every
\* selected match, the success and failure counts sum to the number of
\* selected matches, and the undo entry records, with its backup, exactly the
\* files whose write succeeded.
C15_BatchSurvivesFailures ==
    Applied =>
        /\ Len(write_log) = Cardinality(SelectedMatches)
        /\ \A i \in SelectedMatches :
              \E k \in 1..Len(write_log) : write_log[k].file = ap_matches[i][2]
        /\ success + error = Cardinality(SelectedMatches)
        /\ success = Cardinality(WritesOk)
        /\ error = Cardinality(WritesFailed)
        /\ DOMAIN op_files = {write_log[k].file : k \in WritesOk}
        /\ \A k \in WritesOk : op_files[write_log[k].file] = backup_file(write_log[k].before)
        /\ WritesOk # {} =>
              /\ template_history # <<>>
              /\ template_history[Len(template_history)] = Operation(op_files)
        /\ WritesOk = {} =>
              \A j \in 1..Len(template_history) : template_history[j].timestamp # "now"

\* C15 witness: the first selected write failed, a later one succeeded on a file
\* that held text, and the call has returned
C15_Witness ==
    /\ Applied
    /\ Len(write_log) >= 2
    /\ ~write_log[1].written
    /\ \E k \in WritesOk : k > 1 /\ backup_file(write_log[k].before) = Some(<<"y">>)

(***************************************************************************)
(* Claims about the root line and the skipped lines of parse_structure     *)
(***************************************************************************)
\* the positions of the lines of the text that are not blank
NonBlankLines == {i \in 1..Len(text) : Strip(text[i]) # <<>>}
\* the paths parse_structure has derived
DerivedPaths == Range(files) \cup dirs \cup DOMAIN comments

\* C16: the implicit root is taken from the first non-blank line: whenever
\* that line, cleaned of decoration glyphs, ends in '/', its name is the root
\* and no derived path keeps it as a prefix, also when blank lines precede it.
C16_RootFromFirstNonBlankLine ==
    Parsed /\ NonBlankLines # {} =>
        LET first_cleaned == clean_line(text[MinOf(NonBlankLines)])
            name == SubSeq(first_cleaned, 1, Len(first_cleaned) - 1)
        IN  EndsWith(first_cleaned, <<"/">>) =>
                /\ root_dir = Some(name)
                /\ \A p \in DerivedPaths : p # name /\ ~StartsWith(p, first_cleaned)

\* the lines after the first that parse_structure skips: blank ones, and ones
\* that clean to the empty string once a '#' comment is cut off
SkippedLines ==
    {i \in 2..Len(text) :
        \/ Strip(text[i]) = <<>>
        \/ LET raw == text[i]
               line == IF Contains(raw, <<"#">>)
                       THEN SubSeq(raw, 1, FirstIndex(raw, "#") - 1) ELSE raw
           IN  clean_line(line) = <<>>}
\* the text with line i taken out
WithoutLine(i) == SubSeq(text, 1, i - 1) \o SubSeq(text, i + 1, Len(text))

\* C17: a blank line and a line that cleans to the empty string leave the
\* level-to-path map as it is: the result is the one of the text without
\* that line.
C17_SkippedLinesChangeNothing ==
    Parsed =>
        \A i \in SkippedLines :
            parse_structure(WithoutLine(i)) =
                [files |-> Range(files), dirs |-> dirs, comments |-> comments]

(***************************************************************************)
(* Claims about _calculate_level_fixed                                     *)
(***************************************************************************)
\* no connector glyph in the line
NoConnector(line) == \A i \in 1..Len(line) : line[i] \notin {BoxVert, BoxTee, BoxEll, BoxHoriz}
\* the whitespace the line begins with, and its width with a tab counted 4
LeadingWhitespace(line) == SubSeq(line, 1, RunLen(line, 1, {" ", "\t"}))
LeadingWidth(line) ==
    LET lead == LeadingWhitespace(line)
    IN  4 * CountOf(lead, "\t") + CountOf(lead, " ")

\* C18: for a line without connector glyphs the whitespace count is the number
\* of leading whitespace characters only (a tab counts 4), so the level is the
\* one of a bare name behind the same leading whitespace, whatever blanks or
\* '# comment' follow the name.
C18_LeadingWhitespaceOnly ==
    NoConnector(lv_raw) =>
        /\ lv_pc \in {"level", "done"} => lv_spaces = LeadingWidth(lv_raw)
        /\ lv_pc = "done" =>
              lv_level = calculate_level_fixed(LeadingWhitespace(lv_raw) \o <<"b">>)

\* the widths of the claim, and the level it derives from a count n
CandidateWidths == {2, 4, 8}
ClaimedLevel(n) ==
    LET dividing == {u \in CandidateWidths : n % u = 0}
    IN  IF dividing # {} THEN n \div MinOf(dividing) ELSE n \div MaxOf(CandidateWidths)

\* C19: for a line with no connector or branch glyph and a whitespace count
\* n > 0 the level is n div u, u the smallest of 2, 4, 8 that divides n, and
\* n div 8 when none divides n.
C19_SmallestDividingWidth ==
    lv_pc = "done" /\ NoConnector(lv_line) /\ lv_spaces > 0 =>
        lv_level = ClaimedLevel(lv_spaces)

(***************************************************************************)
(* Claims about the letter case of header paths                            *)
(***************************************************************************)
\* a declared path with separators normalized and letters in lower case
CaseFolded(filepath) == Lower(normalized(filepath))

\* C20: header de-duplication is case-insensitive: of the header lines whose
\* declared paths differ only in letter case _scan_file_headers returns one,
\* and parse returns a single block for them.
C20_CaseInsensitiveHeaders ==
    /\ Scanned =>
          \A j, k \in 1..Len(file_headers) :
              CaseFolded(file_headers[j].filepath) = CaseFolded(file_headers[k].filepath)
                  => j = k
    /\ Returned =>
          \A j, k \in 1..Len(templates) :
              CaseFolded(templates[j].filepath) = CaseFolded(templates[k].filepath)
                  => j = k

\* the lines of the blob that are '#' comments whose whole content is a valid
\* path in neither the fenced nor the dashed form, by position
BarePathLines ==
    {i \in 1..Len(content_lines) :
        LET content == header_content(Strip(content_lines[i]))
        IN  /\ IsComment(content_lines[i])
            /\ is_valid_filepath(content)
            /\ fenced_group(content) = None
            /\ dashed_group(content) = None}
PrecededBySeparator(i) ==
    i > 1 /\ IsDecorative(content_lines[i - 1])
FollowedByBlankOrDocstring(i) ==
    /\ i < Len(content_lines)
    /\ LET nxt == Strip(content_lines[i + 1])
       IN  nxt = <<>> \/ StartsWith(nxt, TripleDouble) \/ StartsWith(nxt, TripleSingle)
ClaimedConfidence(i) ==
    IF PrecededBySeparator(i) THEN 90
    ELSE IF FollowedByBlankOrDocstring(i) THEN 85
    ELSE 80

IsDelimiter(line) == Contains(line, TripleDouble) \/ Contains(line, TripleSingle)
\* line i of the span lies inside a docstring: an odd number of delimiter
\* lines comes before it and a closing one comes after it
InsideDocstring(i) ==
    /\ Cardinality({j \in 1..(i - 1) : IsDelimiter(ex_lines[j])}) % 2 = 1
    /\ \E k \in (i + 1)..Len(ex_lines) : IsDelimiter(ex_lines[k])

\* C22 as stated: a separator-like line ('#' and a run of at least 10
\* '-'/'=') between an opening and a closing docstring delimiter of a span is
\* kept in the extracted body.
C22_DocstringSeparatorKept ==
    Extracted =>
        \A i \in 1..Len(ex_lines) :
            IsDecorative(ex_lines[i]) /\ InsideDocstring(i) =>
                \E m \in 1..Len(ex_result[1]) : ex_result[1][m] = ex_lines[i]

\* lines ls without the blank lines at its two ends
WithoutOuterBlanks(ls) ==
    LET full == {i \in 1..Len(ls) : ~IsBlank(ls[i])}
    IN  IF full = {} THEN <<>> ELSE SubSeq(ls, MinOf(full), MaxOf(full))

\* C23 as stated: the body extracted from a span is the span in its order
\* without the decorative separator comment lines, the single blank line right
\* after such a separator and the blank lines at both ends; every other line
\* (a bare '---' line too) is preserved.
C23_OnlySeparatorsAndBlanksRemoved ==
    Extracted => ex_result[1] = WithoutOuterBlanks(Remaining(ex_lines, 1))

(***************************************************************************)
(* Claims about the scan and the parser together                           *)
(***************************************************************************)
\* the root-relative paths of the files and of the directories of the tree
TreeFiles == {Join(e.path, "/") : e \in {x \in scan_tree : ~x.is_dir}}
TreeDirs == {Join(e.path, "/") : e \in {x \in scan_tree : x.is_dir}}

\* C24 as stated: parse_structure applied to the text _generate_tree produced
\* for a directory tree returns exactly the root-relative file paths and
\* directory paths of that tree, the entries under a directory that is the
\* last child of its parent included.
C24_ScanRoundTrip ==
    structure_text # <<>> /\ Parsed =>
        Range(files) = TreeFiles /\ dirs = TreeDirs

(***************************************************************************)
(* Claims about the undo of a session                                      *)
(***************************************************************************)
\* the times of the operations that are in a history, and the latest of them
PendingTimes ==
    {template_history[i].timestamp : i \in DOMAIN template_history}
      \cup {operation_history[i].timestamp : i \in DOMAIN operation_history}
LatestTime == MaxOf(PendingTimes)
\* a step that reverts a template fill, a step that reverts a creation
FillReverted == Len(template_history') < Len(template_history)
CreationReverted == Len(operation_history') < Len(operation_history)

\* C25 as stated: a confirmed undo_last_operation reverts the operation that
\* was performed last in time, a project creation when the creation came after
\* the last template fill.
C25_UndoRevertsLatest ==
    [][/\ FillReverted => Last(template_history).timestamp = LatestTime
       /\ CreationReverted => Last(operation_history).timestamp = LatestTime]_vars

\* C26 as stated: once the fills of a series have all been undone, in the
\* reverse order and with no failure, every file has the content it had before
\* the first fill, and a file that did not exist then is absent again.
C26_FillsUndoneRestoreFiles ==
    template_history = <<>> =>
        \A f \in SessionFiles : disk_files[f] = disk_before[f]

\* C27: in every state reached through create_project, apply_templates and
\* undo_last_operation (confirmed or declined) the UNDO button is enabled if
\* and only if template_history or operation_history is non-empty.
C27_ButtonFollowsHistories ==
    undo_btn = "normal" <=> (template_history # <<>> \/ operation_history # <<>>)

\* C27 witness: a template fill has been undone and the button is still
\* enabled, for a project creation that waits in operation_history
C27_Witness ==
    /\ message = "Files restored"
    /\ template_history = <<>>
    /\ operation_history # <<>>
    /\ undo_btn = "normal"

\* C28: undo_file_creation deletes only files that the undone create_project
\* itself created and that are still of length zero, and only directories that
\* it created and that are empty; what existed before the creation, and a
\* created file that has received content, stays. In steps: create_project
\* records only what did not exist before it, and the undo of a creation
\* changes no file but a recorded one of length zero, which it removes, and
\* removes no directory but a recorded one of which nothing is left.
C28_UndoCreationKeepsUserData ==
    [][/\ Len(operation_history') > Len(operation_history) =>
             LET made == Last(operation_history')
             IN  /\ \A i \in DOMAIN made.files : ~disk_files[made.files[i]].exists
                 /\ \A i \in DOMAIN made.dirs : made.dirs[i] \notin disk_dirs
       /\ CreationReverted =>
             LET last == Last(operation_history)
             IN  /\ \A f \in SessionFiles :
                       disk_files'[f] # disk_files[f] =>
                           /\ f \in Range(last.files)
                           /\ disk_files[f].exists /\ disk_files[f].content = <<>>
                           /\ ~disk_files'[f].exists
                 /\ disk_dirs' \subseteq disk_dirs
                 /\ \A d \in disk_dirs \ disk_dirs' :
                       /\ d \in Range(last.dirs)
                       /\ entries_of(d, disk_files', disk_dirs') = {}]_vars

\* C28 witness: both creations of a session have been undone; the file b.p of
\* the second is gone, and the file d/a.p, which did not exist at the start
\* and holds what the user wrote into it, is in place with its directory
C28_Witness ==
    /\ message = "Creation undone"
    /\ operation_history = <<>> /\ template_history = <<>> /\ clock = 2
    /\ metadata # <<>> /\ metadata[<<"b.p">>] = <<"c">>
    /\ ~disk_before[<<"b.p">>].exists /\ ~disk_files[<<"b.p">>].exists
    /\ ~disk_before[<<"d", "a.p">>].exists
    /\ disk_files[<<"d", "a.p">>] = File(TRUE, TRUE, EditedBytes)
    /\ <<"d">> \in disk_dirs

(***************************************************************************)
(* Claims about the result of match_files as a whole                       *)
(***************************************************************************)
\* the template paths left unmatched and the project paths left unused
UnmatchedTemplates == Range(template_paths) \ used_templates
UnusedProjects == Range(project_files) \ used_projects
\* the five strategy predicates between a template path and a project path
AnyStrategyHolds(t, p) ==
    \/ normalize_path(t) = normalize_path(p)
    \/ RootStripped(t, p)
    \/ SameFilename(t, p)
    \/ SameLastTwo(t, p)
    \/ Substring(t, p)

\* C29: greedy matching is maximal: in the result of match_files no template
\* path is left unmatched and project path left unused such that one of the
\* five strategy predicates (exact, root-stripped, filename, last two segments,
\* substring) holds between them.
C29_GreedyMaximal ==
    mpc = "done" =>
        \A t \in UnmatchedTemplates, p \in UnusedProjects : ~AnyStrategyHolds(t, p)

\* C29 witness: a finished run with a pair, a template path left unmatched and
\* a project path left unused
C29_Witness ==
    /\ mpc = "done"
    /\ matches # <<>>
    /\ UnmatchedTemplates # {}
    /\ UnusedProjects # {}

\* C30: the suffix strategy never contributes a pair: the filename strategy has
\* run before it, so its pass leaves the list of pairs as it is, and for every
\* input the result of match_files is the result of the same procedure with
\* the suffix strategy removed.
C30_SuffixNeverContributes ==
    /\ mpc = "substr" => Len(matches) =
           Len(Strategy2(template_paths, project_files,
                 Strategy15(template_paths, project_files,
                   Strategy1(template_paths, project_files, MatchState(<<>>, {}, {})))).matches)
    /\ mpc = "done" => matches = match_files_without_suffix(template_paths, project_files)

\* C30 witness: a finished run on an input where a template path and a project
\* path of different normal forms have the same last two segments, and are paired
C30_Witness ==
    /\ mpc = "done"
    /\ \E t \in Range(template_paths), p \in Range(project_files) :
          /\ SameLastTwo(t, p)
          /\ normalize_path(t) # normalize_path(p)
          /\ ~RootStripped(t, p)
          /\ Paired(t, p)

====
